---- MODULE Spec2Model ----
(***************************************************************************)
(* A model of orangebox: the blackbox log Reader (reader.py), the frame    *)
(* stream Parser (parser.py) and the event parsers (events.py).            *)
(*                                                                         *)
(* A log file is a sequence of sessions; a session is a header block (a    *)
(* sequence of "H name:value" lines) followed by a byte buffer of frames.  *)
(* Bytes are the naturals 0..255.  Header values are kept as text: the     *)
(* string "7" stands for the header value 7.                               *)
(*                                                                         *)
(* The modules context.py, decoders.py, predictors.py, types.py and        *)
(* tools.py are not part of the sources at hand; what the model needs of   *)
(* them (Context, FieldDef, the enums, the varint decoder, the identity    *)
(* predictor) follows the specification and is marked so in the map.       *)
(***************************************************************************)
EXTENDS Integers, Sequences, FiniteSets, TLC

VARIABLES file, reader, parser, gen, obs

vars == <<file, reader, parser, gen, obs>>

(***************************************************************************)
(* Values                                                                  *)
(***************************************************************************)

\* Python's None, where the other values of the slot are integers >= 0.
None == -2

\* The empty string "" that pads the slow / gps columns (decoded values
\* are integers >= 0, so the pad is distinguishable from every one of them).
EmptyStr == -1

\* FieldDef.name before a "name" header has been applied.
NoName == "<None>"

MAX_TIME_JUMP == 10 * 1000000

MAX_ITER_JUMP == 500 * 10

END_OF_LOG_MESSAGE == <<69, 110, 100, 32, 111, 102, 32, 108, 111, 103, 0>>

\* The FrameType enum, in its order of definition.
FrameTypes == <<"I", "P", "S", "G", "H", "E">>

\* Parser._frame_type_cache: ord(tag) -> FrameType, "" when the byte is no tag.
FrameTypeOfByte(b) ==
  CASE b = 73 -> "I"
    [] b = 80 -> "P"
    [] b = 83 -> "S"
    [] b = 71 -> "G"
    [] b = 72 -> "H"
    [] b = 69 -> "E"
    [] OTHER -> ""

\* The EventType enum: id -> event kind, "" when the id is no member (the
\* lookup EventType(byte) raises ValueError, also for None).
EventTypeOfByte(b) ==
  CASE b = 0 -> "SYNC_BEEP"
    [] b = 5 -> "FLIGHT_MODE"
    [] b = 13 -> "INFLIGHT_ADJUSTMENT"
    [] b = 14 -> "LOGGING_RESUME"
    [] b = 255 -> "LOG_END"
    [] OTHER -> ""

\* The ids of the decoder registry and of the predictor registry: those the
\* headers of the model name, and 256, the latitude variant the field-def
\* builder puts in the place of 7.
DecoderIds == {"1", "7", "256"}

PredictorIds == {"0", "7", "8", "256"}

(***************************************************************************)
(* Sequences                                                               *)
(***************************************************************************)

Last(s) == s[Len(s)]

\* A value bound to a name: Body of v.
Let(v, Body(_)) == Body(v)

\* Python's s[a:b] on a sequence, a and b 0-based and clipped to the length.
Slice(s, a, b) ==
  LET hi == IF b > Len(s) THEN Len(s) ELSE b
  IN  IF a >= hi THEN <<>> ELSE [i \in 1..(hi - a) |-> s[a + i]]

\* [v] * n
Repeat(v, n) == [i \in 1..n |-> v]

(***************************************************************************)
(* Reader: the cursor primitives                                           *)
(***************************************************************************)

\* Reader.__next__: None when the cursor is at the end of the buffer, else
\* the byte under it, cursor + 1; the index raises when the cursor is past
\* the end.  [b, rd, err]
ReaderNext(rd) ==
  IF rd.frame_data_len = rd.frame_data_ptr
  THEN [b |-> None, rd |-> rd, err |-> ""]
  ELSE IF rd.frame_data_ptr > rd.frame_data_len
  THEN [b |-> None, rd |-> rd, err |-> "IndexError"]
  ELSE [b |-> rd.frame_data[rd.frame_data_ptr + 1],
        rd |-> [rd EXCEPT !.frame_data_ptr = @ + 1], err |-> ""]

\* Reader.has_subsequent: the upcoming bytes equal data; the cursor stays.
HasSubsequent(rd, data) ==
  Slice(rd.frame_data, rd.frame_data_ptr, rd.frame_data_ptr + Len(data)) = data

\* Reader.seek: the cursor is set to n, whatever n is.
ReaderSeek(rd, n) == [rd EXCEPT !.frame_data_ptr = n]

\* Reader.tell
ReaderTell(rd) == rd.frame_data_ptr

\* The results of the cursor primitives below are [val, rd, err]: val is <<>>
\* for None and <<v>> for the value v.

\* Reader.read_bytes: None when fewer than count bytes remain, else the next
\* count bytes, cursor + count.
ReaderReadBytes(rd, count) ==
  IF rd.frame_data_ptr + count > rd.frame_data_len
  THEN [val |-> <<>>, rd |-> rd, err |-> ""]
  ELSE [val |-> <<Slice(rd.frame_data, rd.frame_data_ptr, rd.frame_data_ptr + count)>>,
        rd |-> [rd EXCEPT !.frame_data_ptr = @ + count], err |-> ""]

\* Reader.read_batch: None when no byte remains, else the next size bytes or
\* those that remain, cursor moved past them.
ReaderReadBatch(rd, size) ==
  LET remaining == rd.frame_data_len - rd.frame_data_ptr
      n == IF rd.frame_data_ptr + size > rd.frame_data_len THEN remaining ELSE size
  IN  IF rd.frame_data_ptr + size > rd.frame_data_len /\ remaining <= 0
      THEN [val |-> <<>>, rd |-> rd, err |-> ""]
      ELSE [val |-> <<Slice(rd.frame_data, rd.frame_data_ptr, rd.frame_data_ptr + n)>>,
            rd |-> [rd EXCEPT !.frame_data_ptr = @ + n], err |-> ""]

\* Reader.peek_byte: None at or past the end, else the byte under the cursor.
ReaderPeekByte(rd) ==
  IF rd.frame_data_ptr >= rd.frame_data_len
  THEN [val |-> <<>>, rd |-> rd, err |-> ""]
  ELSE [val |-> <<rd.frame_data[rd.frame_data_ptr + 1]>>, rd |-> rd, err |-> ""]

\* Reader.skip_bytes: False when fewer than count bytes remain, else True,
\* cursor + count.
ReaderSkipBytes(rd, count) ==
  IF rd.frame_data_ptr + count > rd.frame_data_len
  THEN [val |-> <<FALSE>>, rd |-> rd, err |-> ""]
  ELSE [val |-> <<TRUE>>, rd |-> [rd EXCEPT !.frame_data_ptr = @ + count],
        err |-> ""]

\* Reader.value: None when the cursor is at the end, else the byte under it;
\* the index raises when the cursor is past the end.
ReaderValue(rd) ==
  IF rd.frame_data_len = rd.frame_data_ptr
  THEN [val |-> <<>>, rd |-> rd, err |-> ""]
  ELSE IF rd.frame_data_ptr > rd.frame_data_len
  THEN [val |-> <<>>, rd |-> rd, err |-> "IndexError"]
  ELSE [val |-> <<rd.frame_data[rd.frame_data_ptr + 1]>>, rd |-> rd, err |-> ""]

(***************************************************************************)
(* Headers                                                                 *)
(***************************************************************************)

\* A header key: "Field <kind> <prop>" is [kind |-> kind, prop |-> prop], any
\* other name is [kind |-> "", prop |-> name].
FieldKey(kind, prop) == [kind |-> kind, prop |-> prop]

PlainKey(name) == [kind |-> "", prop |-> name]

\* dict lookup / dict store on an insertion-ordered dict kept as a sequence
\* of [k, v]: a key already present keeps its place.
HasKey(d, k) == \E i \in 1..Len(d) : d[i].k = k

DictPut(d, k, v) ==
  IF HasKey(d, k)
  THEN [i \in 1..Len(d) |-> IF d[i].k = k THEN [k |-> k, v |-> v] ELSE d[i]]
  ELSE Append(d, [k |-> k, v |-> v])

\* Reader._parse_header_line on one "H name:value" line: the value becomes a
\* list when it holds a comma, and the entry is stored under the name.  A
\* line without a colon does not unpack into name and value.
ParseHeaderLine(headers, line) ==
  IF ~line.colon THEN [headers |-> headers, err |-> "ValueError"]
  ELSE [headers |-> DictPut(headers, line.k, line.v), err |-> ""]

\* Reader._update_headers: every header line of the block, in order, is put
\* into self._headers (which is not emptied first).
RECURSIVE UpdateHeaders(_, _, _)
UpdateHeaders(headers, lines, i) ==
  IF i > Len(lines) THEN [headers |-> headers, err |-> ""]
  ELSE Let(ParseHeaderLine(headers, lines[i]),
           LAMBDA r : IF r.err # "" THEN r
                      ELSE UpdateHeaders(r.headers, lines, i + 1))

(***************************************************************************)
(* Field definitions                                                       *)
(***************************************************************************)

\* FieldDef(frame_type): nothing set, nothing bound.
NewFieldDef ==
  [name |-> NoName, encoding |-> "", predictor |-> "",
   decoderfun |-> "", predictorfun |-> ""]

\* The innermost loop body with the latitude rewrite kept to the encoding id.
ApplyItem_RewritesEncodingOnly(defs, prop, i, item) ==
  LET fdef == defs[i]
      v == IF fdef.name = "GPS_coord[1]" /\ item = "7" /\ prop = "encoding"
           THEN "256" ELSE item
      written ==
        CASE prop = "name" -> [fdef EXCEPT !.name = v]
          [] prop = "predictor" -> [fdef EXCEPT !.predictor = v]
          [] prop = "encoding" -> [fdef EXCEPT !.encoding = v]
          [] OTHER -> fdef
  IN  IF prop = "predictor"
      THEN IF v \notin PredictorIds
           THEN [defs |-> [defs EXCEPT ![i] = written],
                 err |-> "RuntimeError: No predictor found"]
           ELSE [defs |-> [defs EXCEPT ![i] = [written EXCEPT !.predictorfun = v]],
                 err |-> ""]
      ELSE IF prop = "encoding"
      THEN IF v \notin DecoderIds
           THEN [defs |-> [defs EXCEPT ![i] = written],
                 err |-> "RuntimeError: No decoder found"]
           ELSE [defs |-> [defs EXCEPT ![i] = [written EXCEPT !.decoderfun = v]],
                 err |-> ""]
      ELSE [defs |-> [defs EXCEPT ![i] = written], err |-> ""]

\* A pass of the innermost loop that binds what the registries hold and
\* leaves a field of an unknown id unbound, raising nothing.  (The loop of
\* the program is ApplyItem.)
ApplyItem_SkipsUnknownIds(defs, prop, i, item) ==
  LET fdef == defs[i]
      v == IF fdef.name = "GPS_coord[1]" /\ item = "7" THEN "256" ELSE item
      written ==
        CASE prop = "name" -> [fdef EXCEPT !.name = v]
          [] prop = "predictor" ->
               [fdef EXCEPT !.predictor = v,
                            !.predictorfun = IF v \in PredictorIds THEN v ELSE @]
          [] prop = "encoding" ->
               [fdef EXCEPT !.encoding = v,
                            !.decoderfun = IF v \in DecoderIds THEN v ELSE @]
          [] OTHER -> fdef
  IN  [defs |-> [defs EXCEPT ![i] = written], err |-> ""]

\* One pass of the innermost loop of Reader._build_field_defs: item i of the
\* header value is written to field i of the kind, and bound when the
\* property is "predictor" or "encoding".
ApplyItem(defs, prop, i, item) ==
  LET fdef == defs[i]
      v == IF fdef.name = "GPS_coord[1]" /\ item = "7" THEN "256" ELSE item
      written ==
        CASE prop = "name" -> [fdef EXCEPT !.name = v]
          [] prop = "predictor" -> [fdef EXCEPT !.predictor = v]
          [] prop = "encoding" -> [fdef EXCEPT !.encoding = v]
          [] OTHER -> fdef
  IN  IF prop = "predictor"
      THEN IF v \notin PredictorIds
           THEN [defs |-> [defs EXCEPT ![i] = written],
                 err |-> "RuntimeError: No predictor found"]
           ELSE [defs |-> [defs EXCEPT ![i] = [written EXCEPT !.predictorfun = v]],
                 err |-> ""]
      ELSE IF prop = "encoding"
      THEN IF v \notin DecoderIds
           THEN [defs |-> [defs EXCEPT ![i] = written],
                 err |-> "RuntimeError: No decoder found"]
           ELSE [defs |-> [defs EXCEPT ![i] = [written EXCEPT !.decoderfun = v]],
                 err |-> ""]
      ELSE [defs |-> [defs EXCEPT ![i] = written], err |-> ""]

RECURSIVE ApplyItems(_, _, _, _)
ApplyItems(defs, prop, items, i) ==
  IF i > Len(items) THEN [defs |-> defs, err |-> ""]
  ELSE IF i > Len(defs) THEN [defs |-> defs, err |-> "IndexError"]
  ELSE Let(ApplyItem(defs, prop, i, items[i]),
           LAMBDA r : IF r.err # "" THEN r
                      ELSE ApplyItems(r.defs, prop, items, i + 1))

\* The body of the two outer loops of Reader._build_field_defs for one frame
\* kind and one header entry.  A value that is no list cannot be enumerated.
ApplyHeader(fd, kind, entry) ==
  IF entry.k.kind # kind THEN [fd |-> fd, err |-> ""]
  ELSE IF ~entry.v.list THEN [fd |-> fd, err |-> "TypeError"]
  ELSE Let(IF kind \in DOMAIN fd THEN fd
           ELSE fd @@ (kind :> Repeat(NewFieldDef, Len(entry.v.items))),
           LAMBDA fd1 :
             Let(ApplyItems(fd1[kind], entry.k.prop, entry.v.items, 1),
                 LAMBDA r : [fd |-> [fd1 EXCEPT ![kind] = r.defs], err |-> r.err]))

\* The inner loop over the headers, for one frame kind: the entries of the
\* kind, in the order of the dict.  (An entry of another kind is skipped.)
RECURSIVE ApplyHeaders(_, _, _, _)
ApplyHeaders(fd, kind, entries, h) ==
  IF h > Len(entries) THEN [fd |-> fd, err |-> ""]
  ELSE Let(ApplyHeader(fd, kind, entries[h]),
           LAMBDA r : IF r.err # "" THEN r
                      ELSE ApplyHeaders(r.fd, kind, entries, h + 1))

\* The outer loop over the frame kinds.  The headers of one kind write only
\* the field defs of that kind, so each kind is built from fd on its own; the
\* first kind that raises ends the loop and the kinds after it stay as they
\* were.
BuildLoop(fd, headers) ==
  Let([t \in 1..Len(FrameTypes) |->
         ApplyHeaders(fd, FrameTypes[t],
                      SelectSeq(headers, LAMBDA e : e.k.kind = FrameTypes[t]), 1)],
      LAMBDA of :
        LET bad == {t \in 1..Len(FrameTypes) : of[t].err # ""}
            stop == IF bad = {} THEN Len(FrameTypes)
                    ELSE CHOOSE t \in bad : \A u \in bad : t <= u
            at(k) == CHOOSE t \in 1..stop : FrameTypes[t] = k
            done == {FrameTypes[t] : t \in 1..stop}
        IN  [fd |-> [k \in DOMAIN fd \cup {d \in done : d \in DOMAIN of[at(d)].fd} |->
                       IF k \in done THEN of[at(k)].fd[k] ELSE fd[k]],
             err |-> IF bad = {} THEN "" ELSE of[stop].err])

\* Reader._build_field_defs: self._field_defs (which is not emptied first) is
\* filled from self._headers; then the Inter names are copied from Intra.
BuildFieldDefs(fd0, headers) ==
  Let(BuildLoop(fd0, headers),
      LAMBDA r :
        LET nI == IF "I" \in DOMAIN r.fd THEN Len(r.fd["I"]) ELSE 0
        IN  IF r.err # "" THEN r
            ELSE IF "P" \notin DOMAIN r.fd THEN r
            ELSE [fd |-> [r.fd EXCEPT !["P"] =
                            [i \in 1..Len(@) |->
                               IF i <= nI
                               THEN [@[i] EXCEPT !.name = r.fd["I"][i].name]
                               ELSE @[i]]],
                  err |-> IF "I" \notin DOMAIN r.fd THEN "KeyError"
                          ELSE IF Len(r.fd["P"]) > nI THEN "IndexError" ELSE ""])

(***************************************************************************)
(* Context                                                                 *)
(***************************************************************************)

\* Context(headers, field_defs): the per-session running state.
NewContext(headers, fd) ==
  [frame_type |-> "", field_index |-> 0, current_frame |-> <<>>,
   read_frame_count |-> 0, invalid_frame_count |-> 0, last_iter |-> 0,
   field_def_counts |-> [k \in DOMAIN fd |-> Len(fd[k])],
   past_frames |-> <<>>]

\* Context.add_frame: the frame joins the session's frame history.
AddFrame(ctx, frame) == [ctx EXCEPT !.past_frames = Append(@, frame)]

\* The 0-based index of the first field of the kind with that name, -1 if none.
RECURSIVE IndexOfName(_, _, _)
IndexOfName(fdefs, name, i) ==
  IF i > Len(fdefs) THEN -1
  ELSE IF fdefs[i].name = name THEN i - 1
  ELSE IndexOfName(fdefs, name, i + 1)

\* Context.get_current_value_by_name on a decoded frame: the value of the
\* field with that name, None when the kind has no such field.
GetCurrentValueByName(fdefs, data, name) ==
  LET i == IndexOfName(fdefs, name, 1)
  IN  IF i < 0 \/ i >= Len(data) THEN None ELSE data[i + 1]

(***************************************************************************)
(* Session selection                                                       *)
(***************************************************************************)

\* Reader.log_count
LogCount(f) == Len(f)

\* Reader.__init__ before any session is selected.
NewReader ==
  [headers |-> <<>>, field_defs |-> <<>>, log_index |-> 0,
   frame_data |-> <<>>, frame_data_ptr |-> 0, frame_data_len |-> 0]

\* A set_log_index that checks its index against log_count only: an index
\* below 1 then counts from the end of the list of sessions.  (The method of
\* the program is ReaderSetLogIndex.)
ReaderSetLogIndex_NoLowerBound(rd, f, index) ==
  IF LogCount(f) < index
  THEN [rd |-> rd, err |-> "RuntimeError: Invalid log_index"]
  ELSE Let(f[IF index < 1 THEN LogCount(f) ELSE index],
           LAMBDA session :
             Let(UpdateHeaders(rd.headers, session.hdr, 1),
                 LAMBDA updated :
                   IF updated.err # ""
                   THEN [rd |-> [rd EXCEPT !.headers = updated.headers],
                         err |-> updated.err]
                   ELSE Let(BuildFieldDefs(rd.field_defs, updated.headers),
                            LAMBDA built :
                              [rd |-> [headers |-> updated.headers,
                                       field_defs |-> built.fd,
                                       log_index |-> index,
                                       frame_data |-> session.data,
                                       frame_data_ptr |-> 0,
                                       frame_data_len |-> Len(session.data)],
                               err |-> built.err])))

\* Reader.set_log_index: [rd, err]; err is "" or the exception raised, and rd
\* is the reader as the call leaves it in either case.
ReaderSetLogIndex(rd, f, index) ==
  IF index < 1 \/ LogCount(f) < index
  THEN [rd |-> rd, err |-> "RuntimeError: Invalid log_index"]
  ELSE Let(UpdateHeaders(rd.headers, f[index].hdr, 1),
           LAMBDA updated :
             IF updated.err # ""
             THEN [rd |-> [rd EXCEPT !.headers = updated.headers],
                   err |-> updated.err]
             ELSE Let(BuildFieldDefs(rd.field_defs, updated.headers),
                      LAMBDA built :
                        [rd |-> [headers |-> updated.headers,
                                 field_defs |-> built.fd,
                                 log_index |-> index,
                                 frame_data |-> f[index].data,
                                 frame_data_ptr |-> 0,
                                 frame_data_len |-> Len(f[index].data)],
                         err |-> built.err]))

\* The loop of Parser.set_log_index that extends self._field_names by the
\* names of one kind: a name that is None or already listed is left out.
RECURSIVE ExtendNames(_, _, _)
ExtendNames(names, fdefs, i) ==
  IF i > Len(fdefs) THEN names
  ELSE LET n == fdefs[i].name
       IN  IF n # NoName /\ \A j \in 1..Len(names) : names[j] # n
           THEN ExtendNames(Append(names, n), fdefs, i + 1)
           ELSE ExtendNames(names, fdefs, i + 1)

RECURSIVE FieldNamesLoop(_, _, _)
FieldNamesLoop(names, fd, kinds) ==
  IF kinds = <<>> THEN names
  ELSE FieldNamesLoop(IF Head(kinds) \in DOMAIN fd
                      THEN ExtendNames(names, fd[Head(kinds)], 1) ELSE names,
                      fd, Tail(kinds))

FieldNames(fd) == FieldNamesLoop(<<>>, fd, <<"I", "S", "G">>)

\* {k: v for k, v in reader.headers.items() if "Field" not in k}
PlainHeaders(headers) == SelectSeq(headers, LAMBDA e : e.k.kind = "")

\* Parser.__init__ before its call of set_log_index.
NewParser ==
  [events |-> <<>>, headers |-> <<>>, field_names |-> <<>>,
   end_of_log |-> FALSE, ctx |-> NewContext(<<>>, <<>>),
   last_slow_data |-> <<>>, last_gps_data |-> <<>>]

\* Parser.set_log_index: [p, rd, err].  last_slow_data / last_gps_data hold
\* <<>> for None and <<data>> for a snapshot; the method does not touch them.
ParserSetLogIndex(p, rd, f, index) ==
  Let(ReaderSetLogIndex(rd, f, index),
      LAMBDA r :
        LET p1 == [p EXCEPT !.events = <<>>, !.end_of_log = FALSE]
            hs == PlainHeaders(r.rd.headers)
        IN  IF r.err # "" THEN [p |-> p1, rd |-> r.rd, err |-> r.err]
            ELSE [p |-> [p1 EXCEPT !.headers = hs,
                                    !.ctx = NewContext(hs, r.rd.field_defs),
                                    !.field_names = FieldNames(r.rd.field_defs)],
                  rd |-> r.rd, err |-> ""])

(***************************************************************************)
(* Decoders and predictors                                                 *)
(***************************************************************************)

\* The unsigned varint decoder: 7-bit little-endian groups, continuation bit
\* 0x80; None when the buffer ends inside the value.  [val, rd, err]
RECURSIVE UnsignedVB(_, _, _)
UnsignedVB(rd, mult, acc) ==
  Let(ReaderNext(rd),
      LAMBDA r :
        IF r.b = None THEN [val |-> None, rd |-> r.rd, err |-> r.err]
        ELSE IF r.b < 128 THEN [val |-> acc + r.b * mult, rd |-> r.rd, err |-> ""]
        ELSE UnsignedVB(r.rd, mult * 128, acc + (r.b % 128) * mult))

\* A group decoder: one byte holds a fixed-size tuple of three 2-bit values;
\* None when no byte remains.  (The specification names the group encodings
\* and says they return fixed-size tuples; it does not give their layout.)
\* [val, vals, rd, err]
Tag2Group(rd) ==
  Let(ReaderNext(rd),
      LAMBDA r :
        IF r.b = None THEN [val |-> None, vals |-> <<>>, rd |-> r.rd, err |-> r.err]
        ELSE [val |-> 0, vals |-> <<(r.b \div 16) % 4, (r.b \div 4) % 4, r.b % 4>>,
              rd |-> r.rd, err |-> ""])

\* fdef.decoderfun(reader, ctx): [val, tuple, vals, rd, err]; val is None when
\* the decoder returns None; tuple tells whether it returns a tuple, and vals
\* are the values of the tuple (the one value, for a scalar).  Calling an
\* unbound decoder (None) raises TypeError.
Decode(fdef, rd) ==
  IF fdef.decoderfun = "1"
  THEN Let(UnsignedVB(rd, 1, 0),
           LAMBDA r : [val |-> r.val, tuple |-> FALSE, vals |-> <<r.val>>,
                       rd |-> r.rd, err |-> r.err])
  ELSE IF fdef.decoderfun \in {"7", "256"}
  THEN Let(Tag2Group(rd),
           LAMBDA r : [val |-> r.val, tuple |-> TRUE, vals |-> r.vals,
                       rd |-> r.rd, err |-> r.err])
  ELSE [val |-> None, tuple |-> FALSE, vals |-> <<>>, rd |-> rd, err |-> "TypeError"]

\* fdef.predictorfun(value, ctx): predictor 0 leaves the value as decoded and
\* predictor 8 adds 1500 to it; the home-coordinate predictors 7 and 256
\* leave it as decoded while no home position is known.  (The specification
\* fixes no predictor by its id.)
Predict(fdef, v) == IF fdef.predictorfun = "8" THEN v + 1500 ELSE v

(***************************************************************************)
(* Event parsers (events.py)                                               *)
(***************************************************************************)

\* INFLIGHT_ADJUSTMENT_FUNCTIONS: the scales in units of 1/10000, 0 when the
\* entry has no such key.
INFLIGHT_ADJUSTMENT_FUNCTIONS ==
  << [name |-> "None", scale |-> 0, scalef |-> 0],
     [name |-> "RC Rate", scale |-> 100, scalef |-> 0],
     [name |-> "RC Expo", scale |-> 100, scalef |-> 0],
     [name |-> "Throttle Expo", scale |-> 100, scalef |-> 0],
     [name |-> "Pitch & Roll Rate", scale |-> 100, scalef |-> 0],
     [name |-> "Yaw rate", scale |-> 100, scalef |-> 0],
     [name |-> "Pitch & Roll P", scale |-> 1000, scalef |-> 10000],
     [name |-> "Pitch & Roll I", scale |-> 10, scalef |-> 1000],
     [name |-> "Pitch & Roll D", scale |-> 0, scalef |-> 10000000],
     [name |-> "Yaw P", scale |-> 1000, scalef |-> 10000],
     [name |-> "Yaw I", scale |-> 10, scalef |-> 1000],
     [name |-> "Yaw D", scale |-> 0, scalef |-> 10000000],
     [name |-> "Rate Profile", scale |-> 0, scalef |-> 0],
     [name |-> "Pitch Rate", scale |-> 100, scalef |-> 0],
     [name |-> "Roll Rate", scale |-> 100, scalef |-> 0],
     [name |-> "Pitch P", scale |-> 1000, scalef |-> 10000],
     [name |-> "Pitch I", scale |-> 10, scalef |-> 1000],
     [name |-> "Pitch D", scale |-> 0, scalef |-> 10000000],
     [name |-> "Roll P", scale |-> 1000, scalef |-> 10000],
     [name |-> "Roll I", scale |-> 10, scalef |-> 1000],
     [name |-> "Roll D", scale |-> 0, scalef |-> 10000000] >>

\* 2^n
RECURSIVE Pow2(_)
Pow2(n) == IF n = 0 THEN 1 ELSE 2 * Pow2(n - 1)

\* read_signed_vb: [val, rd, err].  next(reader) is None at the end of the
\* buffer, and None & 0x7F raises TypeError.
RECURSIVE ReadSignedVB(_, _, _)
ReadSignedVB(rd, shift, value) ==
  Let(ReaderNext(rd),
      LAMBDA r :
        IF r.b = None
        THEN [val |-> None, rd |-> r.rd,
              err |-> IF r.err # "" THEN r.err ELSE "TypeError"]
        ELSE Let(value + (r.b % 128) * Pow2(shift),
                 LAMBDA v :
                   IF r.b < 128
                   THEN [val |-> IF (v \div Pow2(shift + 6)) % 2 = 1
                                 THEN v - Pow2(shift + 7) ELSE v,
                         rd |-> r.rd, err |-> ""]
                   ELSE ReadSignedVB(r.rd, shift + 7, v)))

\* read_u32: four calls of next(reader), then the shifts: TypeError when one
\* of the four is None (a cursor past the end raises at the first call).
\* [val, rd, err]
ReadU32(rd) ==
  Let(ReaderNext(rd), LAMBDA r1 :
  Let(ReaderNext(r1.rd), LAMBDA r2 :
  Let(ReaderNext(r2.rd), LAMBDA r3 :
  Let(ReaderNext(r3.rd), LAMBDA r4 :
    IF r1.err # "" THEN [val |-> None, rd |-> r1.rd, err |-> r1.err]
    ELSE IF r1.b = None \/ r2.b = None \/ r3.b = None \/ r4.b = None
    THEN [val |-> None, rd |-> r4.rd, err |-> "TypeError"]
    ELSE [val |-> r1.b * 16777216 + r2.b * 65536 + r3.b * 256 + r4.b,
          rd |-> r4.rd, err |-> ""]))))

\* uint32ToFloat: the module never imports struct, so the call raises
\* NameError for every argument.
Uint32ToFloat(value) == [val |-> None, err |-> "NameError"]

\* inflight_adjustment: [data, rd, err]; data is <<func, value, name>> with
\* the value in units of 1/10000.  The value is read as a signed varint when
\* the first byte is below 128, as a float else.
InflightAdjustmentValue(tmp, rd) ==
  IF tmp < 128 THEN ReadSignedVB(rd, 0, 0)
  ELSE Let(ReadU32(rd),
           LAMBDA u : IF u.err # "" THEN u
                      ELSE [val |-> None, rd |-> u.rd,
                            err |-> Uint32ToFloat(u.val).err])

InflightAdjustment(rd) ==
  Let(ReaderNext(rd),
      LAMBDA t :
        IF t.b = None
        THEN [data |-> <<>>, rd |-> t.rd,
              err |-> IF t.err # "" THEN t.err ELSE "TypeError"]
        ELSE Let(InflightAdjustmentValue(t.b, t.rd),
                 LAMBDA raw :
                   LET tmp == t.b
                       func == tmp % 128
                       descr == INFLIGHT_ADJUSTMENT_FUNCTIONS[func + 1]
                       scale == IF tmp >= 128 /\ descr.scalef # 0 THEN descr.scalef
                                ELSE IF descr.scale # 0 THEN descr.scale
                                ELSE 10000
                   IN  IF raw.err # ""
                       THEN [data |-> <<>>, rd |-> raw.rd, err |-> raw.err]
                       ELSE IF func < Len(INFLIGHT_ADJUSTMENT_FUNCTIONS)
                       THEN [data |-> <<func, raw.val * scale, descr.name>>,
                             rd |-> raw.rd, err |-> ""]
                       ELSE [data |-> <<func, raw.val * 10000, "Unknown">>,
                             rd |-> raw.rd, err |-> ""]))

\* sync_beep: {"time": _unsigned_vb(data)}
SyncBeep(rd) ==
  Let(UnsignedVB(rd, 1, 0), LAMBDA a : [data |-> <<a.val>>, rd |-> a.rd, err |-> a.err])

\* flight_mode: {"new_flags": _unsigned_vb(data), "old_flags": _unsigned_vb(data)}
FlightMode(rd) ==
  Let(UnsignedVB(rd, 1, 0), LAMBDA a :
  Let(UnsignedVB(a.rd, 1, 0), LAMBDA b :
    [data |-> <<a.val, b.val>>, rd |-> b.rd,
     err |-> IF a.err # "" THEN a.err ELSE b.err]))

\* A log-end parser that reads the message when it is there (the parser of
\* the program is LoggingEnd).
LoggingEnd_ReadsMessage(rd) ==
  LET found == HasSubsequent(rd, END_OF_LOG_MESSAGE)
  IN  [data |-> <<>>,
       rd |-> IF found
              THEN [rd EXCEPT !.frame_data_ptr = @ + Len(END_OF_LOG_MESSAGE)]
              ELSE rd,
       err |-> ""]

\* logging_end: the sentinel is only compared (an absent one is logged);
\* nothing is read and the payload is None.
LoggingEnd(rd) ==
  LET found == HasSubsequent(rd, END_OF_LOG_MESSAGE)
  IN  [data |-> <<>>, rd |-> rd, err |-> ""]

\* logging_resume and the other placeholders: pass
LoggingResume(rd) == [data |-> <<>>, rd |-> rd, err |-> ""]

\* event_map[event_type](reader)
EventParser(event_type, rd) ==
  CASE event_type = "SYNC_BEEP" -> SyncBeep(rd)
    [] event_type = "FLIGHT_MODE" -> FlightMode(rd)
    [] event_type = "INFLIGHT_ADJUSTMENT" -> InflightAdjustment(rd)
    [] event_type = "LOG_END" -> LoggingEnd(rd)
    [] OTHER -> LoggingResume(rd)

\* Parser._parse_event_frame: [ok, rd, p, err]
ParseEventFrame(rd, p, last_time, last_iter) ==
  Let(ReaderNext(rd),
      LAMBDA r :
        LET event_type == EventTypeOfByte(r.b)
        IN  IF r.err # "" THEN [ok |-> FALSE, rd |-> r.rd, p |-> p, err |-> r.err]
            ELSE IF event_type = ""
            THEN [ok |-> FALSE, rd |-> r.rd, p |-> p, err |-> ""]
            ELSE Let(EventParser(event_type, r.rd),
                     LAMBDA e :
                       IF e.err # ""
                       THEN [ok |-> FALSE, rd |-> e.rd, p |-> p, err |-> e.err]
                       ELSE [ok |-> TRUE, rd |-> e.rd,
                             p |-> [p EXCEPT
                                      !.events =
                                        Append(@, [type |-> event_type,
                                                   data |-> e.data,
                                                   time |-> last_time,
                                                   iteration |-> last_iter]),
                                      !.end_of_log =
                                        IF event_type = "LOG_END" THEN TRUE ELSE @],
                             err |-> ""]))

(***************************************************************************)
(* The field pipeline                                                      *)
(***************************************************************************)

\* The loop "for v in rawvalue" of Parser._parse_frame_optimized, from
\* element j of the tuple on: each element goes through the predictor of the
\* field at ctx.field_index, and fdefs[ctx.field_index] raises IndexError
\* past the last field.  [ctx, result, err]
RECURSIVE ConsumeTuple(_, _, _, _, _)
ConsumeTuple(fdefs, ctx, result, vals, j) ==
  IF j > Len(vals) THEN [ctx |-> ctx, result |-> result, err |-> ""]
  ELSE IF ctx.field_index >= Len(fdefs)
  THEN [ctx |-> ctx, result |-> result, err |-> "IndexError"]
  ELSE ConsumeTuple(fdefs, [ctx EXCEPT !.field_index = @ + 1],
                    Append(result, Predict(fdefs[ctx.field_index + 1], vals[j])),
                    vals, j + 1)

\* The loop of Parser._parse_frame_optimized: [ok, data, rd, ctx, err]; ok is
\* FALSE when a decoder returned None (the method returns None).
RECURSIVE ParseFields(_, _, _, _, _)
ParseFields(fdefs, rd, ctx, result, field_count) ==
  IF ~(ctx.field_index < field_count)
  THEN [ok |-> TRUE, data |-> result, rd |-> rd, ctx |-> ctx, err |-> ""]
  ELSE LET ctx1 == [ctx EXCEPT !.current_frame = result]
       IN  IF ctx.field_index >= Len(fdefs)
           THEN [ok |-> FALSE, data |-> result, rd |-> rd, ctx |-> ctx1,
                 err |-> "IndexError"]
           ELSE Let(Decode(fdefs[ctx.field_index + 1], rd),
                    LAMBDA d :
                      IF d.err # ""
                      THEN [ok |-> FALSE, data |-> result, rd |-> d.rd,
                            ctx |-> ctx1, err |-> d.err]
                      ELSE IF d.val = None
                      THEN [ok |-> FALSE, data |-> result, rd |-> d.rd,
                            ctx |-> ctx1, err |-> ""]
                      ELSE IF d.tuple
                      THEN Let(ConsumeTuple(fdefs, ctx1, result, d.vals, 1),
                               LAMBDA c :
                                 IF c.err # ""
                                 THEN [ok |-> FALSE, data |-> c.result, rd |-> d.rd,
                                       ctx |-> c.ctx, err |-> c.err]
                                 ELSE ParseFields(fdefs, d.rd, c.ctx, c.result,
                                                  field_count))
                      ELSE ParseFields(fdefs, d.rd,
                                       [ctx1 EXCEPT !.field_index = @ + 1],
                                       Append(result,
                                              Predict(fdefs[ctx.field_index + 1],
                                                      d.val)),
                                       field_count))

\* Parser._parse_frame_optimized
ParseFrameOptimized(fdefs, rd, ctx) ==
  IF ctx.frame_type \notin DOMAIN ctx.field_def_counts
  THEN [ok |-> FALSE, data |-> <<>>, rd |-> rd,
        ctx |-> [ctx EXCEPT !.field_index = 0], err |-> "KeyError"]
  ELSE ParseFields(fdefs, rd, [ctx EXCEPT !.field_index = 0], <<>>,
                   ctx.field_def_counts[ctx.frame_type])

\* self._empty_frame_data[:n]
EmptyFrameData(n) == Repeat(EmptyStr, IF n > 50 THEN 50 ELSE n)

\* Parser._build_final_frame: the main fields, then the slow columns, then
\* the gps columns without the leading time.  kinds is the key set of the
\* field_defs dict the generator holds.
BuildFinalFrame(data, ftype, kinds, fd, last_slow_data, last_gps_data) ==
  LET slow == IF "S" \notin kinds THEN <<>>
              ELSE IF last_slow_data # <<>> THEN last_slow_data[1]
              ELSE EmptyFrameData(Len(fd["S"]))
      gps == IF "G" \notin kinds THEN <<>>
             ELSE IF last_gps_data # <<>>
             THEN Slice(last_gps_data[1], 1, Len(last_gps_data[1]))
             ELSE EmptyFrameData(Len(fd["G"]) - 1)
  IN  [type |-> ftype, data |-> data \o slow \o gps]

(***************************************************************************)
(* The frame stream: Parser.frames, one iteration of its loop at a time    *)
(***************************************************************************)

\* A count that leaves invalid_frame_count alone (the count of the program is
\* Count).
Count_IgnoresInvalid(ctx, read, invalid) ==
  [ctx EXCEPT !.read_frame_count = @ + read]

\* ctx.read_frame_count += read; ctx.invalid_frame_count += invalid
Count(ctx, read, invalid) ==
  [ctx EXCEPT !.read_frame_count = @ + read, !.invalid_frame_count = @ + invalid]

\* The local "ctx = self._ctx" of Parser.frames: the generator g works on the
\* Context object it took at its start.  g.ctx is <<>> while that object is
\* still self._ctx (a change of it shows in p.ctx), and <<c>> once
\* set_log_index has put a new Context in self._ctx (a change of it stays
\* with the generator).  LoopP / LoopG are the parser and the generator after
\* the update F of the generator's ctx.
LoopP(p, g, F(_)) == IF g.ctx = <<>> THEN [p EXCEPT !.ctx = F(@)] ELSE p

LoopG(g, F(_)) == IF g.ctx = <<>> THEN g ELSE [g EXCEPT !.ctx = <<F(@[1])>>]

CountP(p, g, read, invalid) == LoopP(p, g, LAMBDA c : Count(c, read, invalid))

CountG(g, read, invalid) == LoopG(g, LAMBDA c : Count(c, read, invalid))

\* What one iteration of the loop hands back: the reader, the parser and the
\* generator's locals as the iteration leaves them; out is "continue",
\* "yield" (with the frame), "break" or "raise" (with the exception); branch
\* names the path taken.  An iteration that drops a decoded main frame hands
\* back the frame it dropped.
Outcome(rd, p, g, out, branch, frame, err) ==
  [rd |-> rd, p |-> p, g |-> g, out |-> out, branch |-> branch,
   frame |-> frame, err |-> err]

NoFrame == [type |-> "", data |-> <<>>]

\* The event branch of the loop.
DispatchEvent(rd, p, g) ==
  Let(ParseEventFrame(rd, p, g.last_time, g.last_iter),
      LAMBDA ev :
        LET p2 == CountP(ev.p, g, 1, IF ev.ok THEN 0 ELSE 1)
            g2 == CountG(g, 1, IF ev.ok THEN 0 ELSE 1)
        IN  IF ev.err # ""
            THEN Outcome(ev.rd, ev.p, g, "raise", "event", NoFrame, ev.err)
            ELSE IF p2.end_of_log
            THEN Outcome(ev.rd, p2, g2, "break", "event", NoFrame, "")
            ELSE Outcome(ev.rd, p2, [g2 EXCEPT !.ptr = ev.rd.frame_data_ptr],
                         "continue", "event", NoFrame, ""))

\* last_time >= current_time and MAX_TIME_JUMP < time_diff, where
\* time_diff = current_time - last_time
TimeDesync(last_time, current_time) ==
  last_time >= current_time /\ MAX_TIME_JUMP < current_time - last_time

\* An iteration check on the distance of the two iterations (the check of
\* the program, on their sum, is IterDesync).
IterDesync_Distance(last_iter, current_iter) ==
  last_iter >= current_iter /\ MAX_ITER_JUMP < last_iter - current_iter

\* An iteration check that lets a repeated iteration pass (the check of the
\* program is IterDesync).
IterDesync_Strict(last_iter, current_iter) ==
  last_iter > current_iter /\ MAX_ITER_JUMP < current_iter + last_iter

\* last_iter >= current_iter and MAX_ITER_JUMP < current_iter + last_iter
IterDesync(last_iter, current_iter) ==
  last_iter >= current_iter /\ MAX_ITER_JUMP < current_iter + last_iter

\* A look-ahead that resumes at the byte it found to be no tag, not one past
\* it (the loop of the program is DispatchMain).
DispatchMain_ResumesAtStrayByte(rd, p, g, ftype, data) ==
  Let(GetCurrentValueByName(rd.field_defs[ftype], data, "time"), LAMBDA current_time :
  Let(GetCurrentValueByName(rd.field_defs[ftype], data, "loopIteration"), LAMBDA current_iter :
  Let(BuildFinalFrame(data, ftype, g.kinds, rd.field_defs,
                      p.last_slow_data, p.last_gps_data), LAMBDA frame :
  LET next_ptr == rd.frame_data_ptr
      g1 == [g EXCEPT !.last_time = current_time]
      p1 == LoopP(p, g, LAMBDA c : [c EXCEPT !.last_iter = current_iter])
      g2 == LoopG([g EXCEPT !.last_time = current_time, !.last_iter = current_iter],
                  LAMBDA c : [c EXCEPT !.last_iter = current_iter])
  IN  IF current_time = None
      THEN Outcome(rd, p, g, "raise", "main", NoFrame, "KeyError")
      ELSE IF g.last_time # None /\ TimeDesync(g.last_time, current_time)
      THEN Outcome(rd, CountP(p, g, 1, 1),
                   [CountG(g1, 1, 1) EXCEPT !.ptr = next_ptr],
                   "continue", "time_desync", frame, "")
      ELSE IF current_iter = None
      THEN Outcome(rd, p, g1, "raise", "main", NoFrame, "KeyError")
      ELSE IF IterDesync(g.last_iter, current_iter)
      THEN Outcome(rd, CountP(p1, g, 1, 1),
                   [CountG(g2, 1, 1) EXCEPT !.ptr = next_ptr],
                   "continue", "iter_desync", frame, "")
      ELSE IF next_ptr < g.data_len
              /\ FrameTypeOfByte(g.frame_data[next_ptr + 1]) = ""
      THEN Outcome(rd, CountP(p1, g, 0, 1),
                   [CountG(g2, 0, 1) EXCEPT !.ptr = next_ptr],
                   "continue", "lookahead", frame, "")
      ELSE Outcome(rd, LoopP(p1, g, LAMBDA c : AddFrame(Count(c, 1, 0), frame)),
                   [LoopG(g2, LAMBDA c : AddFrame(Count(c, 1, 0), frame))
                      EXCEPT !.ptr = next_ptr],
                   "yield", "main", frame, ""))))

\* The rest of the loop for a decoded Intra / Inter frame: the time check, the
\* iteration check, the stitching, the look-ahead and the yield.
DispatchMain(rd, p, g, ftype, data) ==
  Let(GetCurrentValueByName(rd.field_defs[ftype], data, "time"), LAMBDA current_time :
  Let(GetCurrentValueByName(rd.field_defs[ftype], data, "loopIteration"), LAMBDA current_iter :
  Let(BuildFinalFrame(data, ftype, g.kinds, rd.field_defs,
                      p.last_slow_data, p.last_gps_data), LAMBDA frame :
  LET next_ptr == rd.frame_data_ptr
      g1 == [g EXCEPT !.last_time = current_time]
      p1 == LoopP(p, g, LAMBDA c : [c EXCEPT !.last_iter = current_iter])
      g2 == LoopG([g EXCEPT !.last_time = current_time, !.last_iter = current_iter],
                  LAMBDA c : [c EXCEPT !.last_iter = current_iter])
  IN  IF current_time = None
      THEN Outcome(rd, p, g, "raise", "main", NoFrame, "KeyError")
      ELSE IF g.last_time # None /\ TimeDesync(g.last_time, current_time)
      THEN Outcome(rd, CountP(p, g, 1, 1),
                   [CountG(g1, 1, 1) EXCEPT !.ptr = next_ptr],
                   "continue", "time_desync", frame, "")
      ELSE IF current_iter = None
      THEN Outcome(rd, p, g1, "raise", "main", NoFrame, "KeyError")
      ELSE IF IterDesync(g.last_iter, current_iter)
      THEN Outcome(rd, CountP(p1, g, 1, 1),
                   [CountG(g2, 1, 1) EXCEPT !.ptr = next_ptr],
                   "continue", "iter_desync", frame, "")
      ELSE IF next_ptr < g.data_len
              /\ FrameTypeOfByte(g.frame_data[next_ptr + 1]) = ""
      THEN Outcome(rd, CountP(p1, g, 0, 1),
                   [CountG(g2, 0, 1) EXCEPT !.ptr = next_ptr + 1],
                   "continue", "lookahead", frame, "")
      ELSE Outcome(rd, LoopP(p1, g, LAMBDA c : AddFrame(Count(c, 1, 0), frame)),
                   [LoopG(g2, LAMBDA c : AddFrame(Count(c, 1, 0), frame))
                      EXCEPT !.ptr = next_ptr],
                   "yield", "main", frame, ""))))

\* A frame stream that hands every decoded frame to the caller, whatever its
\* kind (the stream of the program is DispatchFrame, below).
DispatchFrame_YieldsEveryKind(rd, p, g, ftype) ==
  Let(ParseFrameOptimized(rd.field_defs[ftype], rd, p.ctx), LAMBDA fr :
  LET p1 == [p EXCEPT !.ctx = fr.ctx]
      g1 == [g EXCEPT !.ptr = fr.rd.frame_data_ptr]
      frame == [type |-> ftype, data |-> fr.data]
  IN  IF fr.err # ""
      THEN Outcome(fr.rd, p1, g, "raise", "frame", NoFrame, fr.err)
      ELSE IF ~fr.ok
      THEN Outcome(fr.rd, CountP(p1, g, 0, 1), CountG(g1, 0, 1),
                   "continue", "corrupt", NoFrame, "")
      ELSE Outcome(fr.rd, CountP(p1, g, 1, 0), CountG(g1, 1, 0),
                   "yield", "main", frame, ""))

\* The branch of the loop for a frame kind that has field defs: the field
\* pipeline, then the handling per kind.
DispatchFrame(rd, p, g, ftype) ==
  Let(ParseFrameOptimized(rd.field_defs[ftype], rd, p.ctx), LAMBDA fr :
  LET p1 == [p EXCEPT !.ctx = fr.ctx]
      g1 == [g EXCEPT !.ptr = fr.rd.frame_data_ptr]
      frame == [type |-> ftype, data |-> fr.data]
  IN  IF fr.err # ""
      THEN Outcome(fr.rd, p1, g, "raise", "frame", NoFrame, fr.err)
      ELSE IF ~fr.ok
      THEN Outcome(fr.rd, CountP(p1, g, 0, 1), CountG(g1, 0, 1),
                   "continue", "corrupt", NoFrame, "")
      ELSE IF ftype = "S"
      THEN Outcome(fr.rd,
                   CountP([p1 EXCEPT !.last_slow_data = <<fr.data>>], g, 1, 0),
                   CountG([g1 EXCEPT !.last_slow = <<frame>>], 1, 0),
                   "continue", "slow", NoFrame, "")
      ELSE IF ftype = "G"
      THEN Outcome(fr.rd,
                   CountP([p1 EXCEPT !.last_gps_data = <<fr.data>>], g, 1, 0),
                   CountG([g1 EXCEPT !.last_gps = <<frame>>], 1, 0),
                   "continue", "gps", NoFrame, "")
      ELSE IF ftype = "H"
      THEN Outcome(fr.rd,
                   LoopP(p1, g, LAMBDA c : Count(AddFrame(c, frame), 1, 0)),
                   LoopG(g1, LAMBDA c : Count(AddFrame(c, frame), 1, 0)),
                   "continue", "gps_home", NoFrame, "")
      ELSE DispatchMain(fr.rd, p1, g, ftype, fr.data))

\* An iteration that skips a byte that is no tag without counting it, as
\* the loop of FastParser.frames_fast does (the loop of Parser.frames is
\* DispatchStep).
DispatchStep_Uncounted(rd, p, g) ==
  LET byte_val == g.frame_data[g.ptr + 1]
      ftype == FrameTypeOfByte(byte_val)
      rd1 == [rd EXCEPT !.frame_data_ptr = g.ptr + 1]
      p1 == LoopP(p, g, LAMBDA c : [c EXCEPT !.frame_type = ftype])
      g1 == LoopG(g, LAMBDA c : [c EXCEPT !.frame_type = ftype])
  IN  IF ftype = ""
      THEN Outcome(rd, p, [g EXCEPT !.ptr = @ + 1],
                   "continue", "invalid_tag", NoFrame, "")
      ELSE IF ftype = "E" THEN DispatchEvent(rd1, p1, g1)
      ELSE IF ftype \notin g.kinds
      THEN Outcome(rd1, p1, [g1 EXCEPT !.ptr = @ + 1],
                   "continue", "no_field_def", NoFrame, "")
      ELSE DispatchFrame(rd1, p1, g1, ftype)

\* One iteration of the loop "while ptr < data_len" of Parser.frames.
DispatchStep(rd, p, g) ==
  LET byte_val == g.frame_data[g.ptr + 1]
      ftype == FrameTypeOfByte(byte_val)
      rd1 == [rd EXCEPT !.frame_data_ptr = g.ptr + 1]
      p1 == LoopP(p, g, LAMBDA c : [c EXCEPT !.frame_type = ftype])
      g1 == LoopG(g, LAMBDA c : [c EXCEPT !.frame_type = ftype])
  IN  IF ftype = ""
      THEN Outcome(rd, CountP(p, g, 0, 1),
                   [CountG(g, 0, 1) EXCEPT !.ptr = @ + 1],
                   "continue", "invalid_tag", NoFrame, "")
      ELSE IF ftype = "E" THEN DispatchEvent(rd1, p1, g1)
      ELSE IF ftype \notin g.kinds
      THEN Outcome(rd1, CountP(p1, g, 1, 1),
                   [CountG(g1, 1, 1) EXCEPT !.ptr = @ + 1],
                   "continue", "no_field_def", NoFrame, "")
      ELSE DispatchFrame(rd1, p1, g1, ftype)

\* The generator object frames() returns, before its first next(): pc is
\* "none" (no generator), "new", "running", "suspended" (at the yield), "done"
\* or "raised".  last_slow / last_gps hold <<>> for None, <<frame>> else.
NewGen(pc) ==
  [pc |-> pc, stale |-> FALSE, ctx |-> <<>>, kinds |-> {}, last_slow |-> <<>>,
   last_gps |-> <<>>, last_time |-> None, last_iter |-> 0, frame_data |-> <<>>,
   data_len |-> 0, ptr |-> 0]

\* The locals Parser.frames sets up before its loop, at the first next().
StartGen(rd) ==
  [pc |-> "running", stale |-> FALSE, ctx |-> <<>>, kinds |-> DOMAIN rd.field_defs,
   last_slow |-> <<>>, last_gps |-> <<>>, last_time |-> None, last_iter |-> 0,
   frame_data |-> rd.frame_data, data_len |-> rd.frame_data_len, ptr |-> 0]

(***************************************************************************)
(* Log files                                                               *)
(***************************************************************************)

\* The most calls of set_log_index after the parser is constructed.
MaxSelects == 1

\* The most calls of frames() on one selected session.
MaxTraversals == 2

\* The most frames (or stray bytes) in the buffer of the first session.
MaxChunks == 2

List(items) == [list |-> TRUE, items |-> items]

Scalar(item) == [list |-> FALSE, items |-> <<item>>]

HeaderLine(k, v) == [k |-> k, v |-> v, colon |-> TRUE]

\* The header lines of one frame kind: names (none for Inter), predictor ids
\* and encoding ids, every field a varint left as decoded.
FieldLines(kind, names) ==
  (IF kind = "P" THEN <<>> ELSE <<HeaderLine(FieldKey(kind, "name"), List(names))>>)
  \o << HeaderLine(FieldKey(kind, "predictor"), List(Repeat("0", Len(names)))),
        HeaderLine(FieldKey(kind, "encoding"), List(Repeat("1", Len(names)))) >>

IntraNames == <<"loopIteration", "time", "axisP[0]">>

SlowNames == <<"flightModeFlags", "stateFlags">>

GpsNames == <<"time", "GPS_numSat">>

GpsHomeNames == <<"GPS_home[0]", "GPS_home[1]">>

\* A header block: the product line, a craft name, the Intra and Inter
\* fields, and the fields of those of Slow, Gps, GpsHome that it declares.
HeaderBlock(kinds, craft) ==
  << HeaderLine(PlainKey("Product"), Scalar("Blackbox flight data recorder")),
     HeaderLine(PlainKey("Craft name"), Scalar(craft)) >>
  \o FieldLines("I", IntraNames)
  \o FieldLines("P", IntraNames)
  \o (IF "S" \in kinds THEN FieldLines("S", SlowNames) ELSE <<>>)
  \o (IF "G" \in kinds THEN FieldLines("G", GpsNames) ELSE <<>>)
  \o (IF "H" \in kinds THEN FieldLines("H", GpsHomeNames) ELSE <<>>)

\* The bytes of an unsigned varint.
RECURSIVE EncodeUVB(_)
EncodeUVB(v) ==
  IF v < 128 THEN <<v>> ELSE <<128 + (v % 128)>> \o EncodeUVB(v \div 128)

\* The bytes of a main frame: tag, loopIteration, time, axisP[0].
MainFrame(tag, iteration, time) ==
  <<tag>> \o EncodeUVB(iteration) \o EncodeUVB(time) \o <<0>>

\* Every concatenation of at most n of the chunks.
RECURSIVE Buffers(_, _)
Buffers(chunks, n) ==
  IF n = 0 THEN {<<>>}
  ELSE LET shorter == Buffers(chunks, n - 1)
       IN  shorter \cup {b \o c : b \in shorter, c \in chunks}

\* A session buffer that begins with 'H' would be read as a header line.
FrameData(buffers) == {b \in buffers : b = <<>> \/ b[1] # 72}

Session(hdr, data) == [hdr |-> hdr, data |-> data]

\* Frames of every kind, the values small: an Intra, an Inter, a Slow, a Gps
\* and a GpsHome frame, a sync-beep event.
StitchChunks ==
  { MainFrame(73, 1, 100), MainFrame(80, 2, 101), <<83, 4, 5>>, <<71, 102, 7>>,
    <<72, 8, 9>>, <<69, 0, 42>> }

\* Files of two sessions, each declaring Slow, Gps and GpsHome fields or none
\* of them.
StitchFiles ==
  { << Session(HeaderBlock(k1, "one"), b1), Session(HeaderBlock(k2, "two"), b2) >> :
      k1 \in {{}, {"S", "G", "H"}}, k2 \in {{}, {"S", "G", "H"}},
      b1 \in FrameData(Buffers(StitchChunks, MaxChunks)),
      b2 \in {<<>>, MainFrame(73, 1, 100)} }

\* The most main frames (or stray bytes) in a buffer of DesyncFiles.
MaxFrames == 3

\* Main frames whose times fall back by more than MAX_TIME_JUMP, main frames
\* whose iterations fall back with a sum above and not above MAX_ITER_JUMP,
\* and a stray byte.
DesyncChunks ==
  { MainFrame(73, 1, 10000200), MainFrame(80, 2, 100),
    MainFrame(73, 3000, 100), MainFrame(80, 2500, 100), MainFrame(80, 2600, 100),
    <<1>> }

\* Files whose first session holds main frames only.
DesyncFiles ==
  { << Session(HeaderBlock({}, "one"), b1), Session(HeaderBlock({}, "two"), <<>>) >> :
      b1 \in Buffers(DesyncChunks, MaxFrames) }

\* The most events (or frames) in a buffer of EventFiles.
MaxEvents == 2

\* A sync beep, a flight-mode change, the end of the log with and without its
\* message, an inflight adjustment with an integer and with a float value, an
\* event of an unknown id, and an Intra frame.
EventChunks ==
  { <<69, 0, 42>>, <<69, 5, 3, 1>>, <<69, 255>> \o END_OF_LOG_MESSAGE, <<69, 255>>,
    <<69, 13, 2, 50>>, <<69, 13, 136, 0, 0, 128, 63>>, <<69, 7>>,
    MainFrame(73, 1, 100) }

\* Every buffer cut off after any number of its bytes.
Truncations(buffers) == UNION {{Slice(b, 0, n) : n \in 0..Len(b)} : b \in buffers}

\* Files whose first session holds events, whole or cut off.
EventFiles ==
  { << Session(HeaderBlock({}, "one"), b1), Session(HeaderBlock({}, "two"), <<>>) >> :
      b1 \in Truncations(Buffers(EventChunks, MaxEvents)) }

\* The payloads of an inflight adjustment: the signed varints 50 and -1, and
\* the big-endian bits of the float 1.0.
IntegerPayloads == {<<50>>, <<127>>}

FloatPayloads == {<<63, 128, 0, 0>>}

\* Files whose first session holds one inflight-adjustment event: every
\* function index of the table and the first index past it with an integer
\* value, every function index of the table with a float value.
InflightFiles ==
  { << Session(HeaderBlock({}, "one"), <<69, 13, tag>> \o payload),
       Session(HeaderBlock({}, "two"), <<>>) >> :
      tag \in 0..Len(INFLIGHT_ADJUSTMENT_FUNCTIONS), payload \in IntegerPayloads }
  \cup
  { << Session(HeaderBlock({}, "one"), <<69, 13, 128 + func>> \o payload),
       Session(HeaderBlock({}, "two"), <<>>) >> :
      func \in 0..(Len(INFLIGHT_ADJUSTMENT_FUNCTIONS) - 1), payload \in FloatPayloads }

\* The most frames (or stray bytes) in a buffer of CorruptFiles.
MaxCorruptChunks == 2

\* An Intra frame, a Slow, a Gps and a GpsHome frame, a byte that is no
\* frame tag, and a sync-beep event.
CorruptChunks ==
  { MainFrame(73, 1, 100), <<83, 4, 5>>, <<71, 102, 7>>, <<72, 8, 9>>, <<1>>,
    <<69, 0, 42>> }

\* A header block that declares no fields of any kind.
BareBlock ==
  << HeaderLine(PlainKey("Product"), Scalar("Blackbox flight data recorder")),
     HeaderLine(PlainKey("Craft name"), Scalar("bare")) >>

\* Files whose first session declares no fields at all, the Intra and Inter
\* fields, or the Slow, Gps and GpsHome fields as well, its buffer whole or
\* cut off after any number of bytes.
CorruptFiles ==
  { << Session(h1, b1), Session(HeaderBlock({}, "two"), <<>>) >> :
      h1 \in {BareBlock, HeaderBlock({}, "one"), HeaderBlock({"S", "G", "H"}, "one")},
      b1 \in FrameData(Truncations(Buffers(CorruptChunks, MaxCorruptChunks))) }

\* The header lines of one frame kind with the given names, predictor ids
\* and encoding ids (no names for Inter).
CodedLines(kind, names, predictors, encodings) ==
  (IF kind = "P" THEN <<>> ELSE <<HeaderLine(FieldKey(kind, "name"), List(names))>>)
  \o << HeaderLine(FieldKey(kind, "predictor"), List(predictors)),
        HeaderLine(FieldKey(kind, "encoding"), List(encodings)) >>

\* A header block whose Intra and Inter fields have the given names,
\* predictor ids and encoding ids.
CodedBlock(names, predictors, encodings) ==
  << HeaderLine(PlainKey("Product"), Scalar("Blackbox flight data recorder")),
     HeaderLine(PlainKey("Craft name"), Scalar("coded")) >>
  \o CodedLines("I", names, predictors, encodings)
  \o CodedLines("P", names, predictors, encodings)

\* Header blocks with group-coded fields: a group of three fields after the
\* two varints, the first and the last of the group with predictor 8; a
\* group that begins at the last of three fields; and a group that begins
\* at the second of five fields, followed by a group that begins at the
\* last.
GroupBlocks ==
  { CodedBlock(<<"loopIteration", "time", "axisP[0]", "axisP[1]", "axisP[2]">>,
               <<"0", "0", "8", "0", "8">>, <<"1", "1", "7", "7", "7">>),
    CodedBlock(<<"loopIteration", "time", "axisP[0]">>,
               <<"0", "0", "8">>, <<"1", "1", "7">>),
    CodedBlock(<<"loopIteration", "time", "axisP[0]", "axisP[1]", "axisP[2]">>,
               <<"0", "0", "8", "0", "8">>, <<"1", "7", "7", "7", "7">>) }

\* The most frames in a buffer of GroupFiles.
MaxGroupFrames == 2

\* An Intra and an Inter frame of two varints and one group byte, an Intra
\* frame of one varint and two group bytes, and a byte that is no tag.
GroupChunks == { <<73, 1, 100, 27>>, <<80, 2, 101, 57>>, <<73, 1, 27, 57>>, <<1>> }

\* Files whose first session has group-coded fields, its buffer whole or cut
\* off after any number of bytes.
GroupFiles ==
  { << Session(h1, b1), Session(HeaderBlock({}, "two"), <<>>) >> :
      h1 \in GroupBlocks,
      b1 \in Truncations(Buffers(GroupChunks, MaxGroupFrames)) }

\* The most calls of set_log_index on a file of HeaderFiles.
MaxHeaderSelects == 2

\* A header block with the given Intra, Slow and Gps field names (no Slow or
\* Gps lines for <<>>), then the lines of extra.
NamedBlock(intra, slow, gps, extra) ==
  << HeaderLine(PlainKey("Product"), Scalar("Blackbox flight data recorder")),
     HeaderLine(PlainKey("Craft name"), Scalar("named")) >>
  \o FieldLines("I", intra)
  \o FieldLines("P", intra)
  \o (IF slow = <<>> THEN <<>> ELSE FieldLines("S", slow))
  \o (IF gps = <<>> THEN <<>> ELSE FieldLines("G", gps))
  \o extra

\* Slow field names of which one repeats an Intra name, and Intra field names
\* without "time".
SlowNamesRepeating == <<"flightModeFlags", "axisP[0]">>

IntraNamesWithoutTime == <<"loopIteration", "axisP[0]", "axisP[1]">>

\* Header blocks a session can be selected with: Intra and Inter fields only;
\* Slow and Gps fields as well; a Slow name that repeats an Intra name; no
\* Intra field "time".
GoodBlocks ==
  { NamedBlock(IntraNames, <<>>, <<>>, <<>>),
    NamedBlock(IntraNames, SlowNames, GpsNames, <<>>),
    NamedBlock(IntraNames, SlowNamesRepeating, GpsNames, <<>>),
    NamedBlock(IntraNamesWithoutTime, <<>>, GpsNames, <<>>) }

\* A header line "H <text>" that holds no colon.
LineWithoutColon == [k |-> PlainKey("Firmware type"), v |-> Scalar(""), colon |-> FALSE]

\* Header blocks that go wrong: Slow fields of which one names an encoding id
\* or a predictor id that no registry holds, and a line without a colon
\* before the last header line.
BadBlocks ==
  { NamedBlock(IntraNames, <<>>, <<>>,
               << HeaderLine(FieldKey("S", "name"), List(SlowNames)),
                  HeaderLine(FieldKey("S", "predictor"), List(<<"0", "0">>)),
                  HeaderLine(FieldKey("S", "encoding"), List(<<"1", "9">>)) >>),
    NamedBlock(IntraNames, <<>>, <<>>,
               << HeaderLine(FieldKey("S", "name"), List(SlowNames)),
                  HeaderLine(FieldKey("S", "predictor"), List(<<"9", "0">>)),
                  HeaderLine(FieldKey("S", "encoding"), List(<<"1", "1">>)) >>),
    NamedBlock(IntraNames, <<>>, <<>>,
               << LineWithoutColon,
                  HeaderLine(PlainKey("looptime"), Scalar("125")) >>) }

\* Files of two sessions: the first with a good header block, the second with
\* a good or a bad one; a Slow frame, a Gps frame and an Intra frame at most.
HeaderFiles ==
  { << Session(h1, b1), Session(h2, b2) >> :
      h1 \in GoodBlocks, h2 \in GoodBlocks \cup BadBlocks,
      b1 \in {<<>>, MainFrame(73, 1, 100),
              <<83, 4, 5>> \o MainFrame(73, 1, 100),
              <<83, 4, 5, 71, 102, 7>> \o MainFrame(73, 1, 100)},
      b2 \in {<<>>, <<83, 4, 5>> \o MainFrame(73, 1, 100)} }

\* A header block whose Intra fields have the names intra and whose Inter
\* headers list as many items as inter; <<>> leaves the headers of the kind
\* out.
ShapedBlock(intra, inter) ==
  << HeaderLine(PlainKey("Product"), Scalar("Blackbox flight data recorder")),
     HeaderLine(PlainKey("Craft name"), Scalar("shaped")) >>
  \o (IF intra = <<>> THEN <<>> ELSE FieldLines("I", intra))
  \o (IF inter = <<>> THEN <<>> ELSE FieldLines("P", inter))

\* Two Intra names, for a session that logs fewer fields.
FewerNames == <<"loopIteration", "time">>

\* Header blocks whose Intra and Inter headers list as many fields, and
\* header blocks whose Inter headers list fewer fields, more fields, or are
\* the only field headers, or are left out.
ShapedBlocks ==
  { ShapedBlock(IntraNames, IntraNames),
    ShapedBlock(FewerNames, FewerNames),
    ShapedBlock(IntraNames, FewerNames),
    ShapedBlock(FewerNames, IntraNames),
    ShapedBlock(IntraNames, <<>>),
    ShapedBlock(<<>>, IntraNames) }

\* Files of two sessions with such header blocks; an Intra frame at most.
ShapedFiles ==
  { << Session(h1, b1), Session(h2, <<>>) >> :
      h1 \in ShapedBlocks, h2 \in ShapedBlocks,
      b1 \in {<<>>, MainFrame(73, 1, 100)} }

\* Files of two sessions for a caller that selects the second session while
\* a generator of the first is suspended: the first buffer ends in a frame,
\* or in the tag of a frame that is cut off after a whole frame; the second
\* buffer is empty, as long as the first, or longer.
ResumeFiles ==
  { << Session(HeaderBlock({}, "one"), b1), Session(HeaderBlock({}, "two"), b2) >> :
      b1 \in {MainFrame(73, 1, 100) \o MainFrame(73, 2, 101),
              MainFrame(73, 1, 100) \o <<73>>,
              MainFrame(73, 1, 100) \o <<80, 2>>,
              MainFrame(73, 1, 100) \o <<69>>},
      b2 \in {<<>>, MainFrame(73, 1, 100) \o <<73>>,
              MainFrame(73, 1, 100) \o MainFrame(73, 2, 101) \o MainFrame(73, 3, 102)} }

\* The Gps field names of a session that logs its position.
GpsCoordNames == <<"time", "GPS_numSat", "GPS_coord[0]", "GPS_coord[1]">>

\* Header blocks whose Gps fields hold the two coordinates: with the
\* predictor id 7 and varints, and with the predictor id 0 and the encoding
\* id 7.
GpsBlocks ==
  { NamedBlock(IntraNames, <<>>, <<>>,
               CodedLines("G", GpsCoordNames, <<"0", "0", "7", "7">>,
                          <<"1", "1", "1", "1">>)),
    NamedBlock(IntraNames, <<>>, <<>>,
               CodedLines("G", GpsCoordNames, <<"0", "0", "0", "0">>,
                          <<"1", "1", "7", "7">>)) }

\* Files of two sessions of which the first logs its position; a Gps frame
\* and an Intra frame at most.
GpsFiles ==
  { << Session(h1, b1), Session(h2, <<>>) >> :
      h1 \in GpsBlocks, h2 \in GpsBlocks \cup {HeaderBlock({}, "two")},
      b1 \in {<<>>, MainFrame(73, 1, 100), <<71, 102, 7, 5, 6>> \o MainFrame(73, 1, 100)} }

(***************************************************************************)
(* The state machine                                                       *)
(***************************************************************************)

\* What the caller has seen (obs is not program state): sel and trav count
\* the calls of set_log_index since construction and of frames() since the
\* last selection; yielded are the frames the current generator has yielded;
\* branch, out and err describe the last loop iteration; sel_err is the
\* exception of the last set_log_index; first is the first traversal of the
\* selected session; prev is the selection before the last one and the
\* first traversal made under it; gap[k] counts the main frames the
\* generator dropped at the iteration check or at the look-ahead between its
\* yields k - 1 and k, and drops those since its last yield; seen is <<>> or
\* <<frame>>, the last main frame the current generator has decoded, yielded
\* or dropped; sel_idx is the index of the last set_log_index and budget the
\* number of calls of set_log_index the caller makes; call is the last call
\* of a cursor primitive of parser.reader: its name, its argument, what it
\* returned or raised, and the cursor before it; iters counts the loop
\* iterations of the current generator.
NewObs(p) ==
  [sel |-> 0, trav |-> 0, yielded |-> <<>>, branch |-> "", out |-> "", err |-> "",
   sel_err |-> "", sel_idx |-> 1, budget |-> 0, drops |-> 0, gap |-> <<>>,
   seen |-> <<>>, call |-> [op |-> "", arg |-> 0, val |-> <<>>, err |-> "", ptr |-> 0],
   first |-> [frames |-> <<>>, full |-> FALSE], iters |-> 0,
   prev |-> [valid |-> FALSE, idx |-> 0, frames |-> <<>>, full |-> FALSE,
             headers |-> <<>>, field_names |-> <<>>]]

\* Parser.load(path, 1): Reader(path, 1) selects session 1, then
\* Parser.__init__ selects reader.log_index again.
InitOf(files, selects) ==
  /\ file \in files
  /\ \E r0 \in {ReaderSetLogIndex(NewReader, file, 1)} :
       \E r1 \in {ParserSetLogIndex(NewParser, r0.rd, file, r0.rd.log_index)} :
          /\ r0.err = ""
          /\ r1.err = ""
          /\ reader = r1.rd
          /\ parser = r1.p
          /\ obs = [NewObs(r1.p) EXCEPT !.budget = selects]
  /\ gen = NewGen("none")

\* parser.set_log_index(index), between two pulls.  A generator suspended at
\* its yield keeps its locals and is stale once the session is reloaded; the
\* Context it took stays its own when the call puts a new one in self._ctx.
SetLogIndex(index) ==
  /\ gen.pc # "running"
  /\ obs.sel < obs.budget
  /\ \E r \in {ParserSetLogIndex(parser, reader, file, index)} :
     LET reloaded == ~(index < 1 \/ LogCount(file) < index)
     IN  /\ parser' = r.p
         /\ reader' = r.rd
         /\ gen' = IF gen.pc = "suspended"
                   THEN [gen EXCEPT
                           !.stale = IF reloaded THEN TRUE ELSE @,
                           !.ctx = IF r.err = "" /\ @ = <<>>
                                   THEN <<parser.ctx>> ELSE @]
                   ELSE gen
         /\ obs' = IF r.err # ""
                   THEN [obs EXCEPT !.sel = @ + 1, !.sel_err = r.err,
                                    !.sel_idx = index]
                   ELSE [obs EXCEPT
                           !.sel = @ + 1, !.sel_err = "", !.sel_idx = index,
                           !.trav = IF gen.pc = "new" THEN 1 ELSE 0,
                           !.first = [frames |-> <<>>, full |-> FALSE],
                           !.prev = [valid |-> TRUE, idx |-> reader.log_index,
                                     frames |-> obs.first.frames,
                                     full |-> obs.first.full,
                                     headers |-> parser.headers,
                                     field_names |-> parser.field_names]]
  /\ UNCHANGED file

\* parser.frames(): a new generator; nothing of its body runs yet.
Frames ==
  /\ gen.pc # "running"
  /\ obs.trav < MaxTraversals
  /\ gen' = NewGen("new")
  /\ obs' = [obs EXCEPT !.trav = @ + 1, !.yielded = <<>>, !.branch = "",
                        !.out = "", !.err = "", !.drops = 0, !.gap = <<>>,
                        !.seen = <<>>, !.iters = 0]
  /\ UNCHANGED <<file, reader, parser>>

\* next(generator): the body starts (lines 106-122) or resumes after its yield.
NextFrame ==
  /\ gen.pc \in {"new", "suspended"}
  /\ gen' = IF gen.pc = "new" THEN StartGen(reader) ELSE [gen EXCEPT !.pc = "running"]
  /\ UNCHANGED <<file, reader, parser, obs>>

\* One test of the loop condition and, when it holds, one iteration of the
\* loop; the generator ends when the condition fails or the loop breaks.
Dispatch ==
  /\ gen.pc = "running"
  /\ \E r \in {IF gen.ptr < gen.data_len
               THEN DispatchStep(reader, parser, gen)
               ELSE Outcome(reader, parser, gen, "break", "end", NoFrame, "")} :
     LET pc == CASE r.out = "continue" -> "running"
                 [] r.out = "yield" -> "suspended"
                 [] r.out = "break" -> "done"
                 [] OTHER -> "raised"
         ys == IF r.out = "yield" THEN Append(obs.yielded, r.frame) ELSE obs.yielded
     IN  /\ reader' = r.rd
         /\ parser' = r.p
         /\ gen' = [r.g EXCEPT !.pc = pc]
         /\ obs' = [obs EXCEPT
                      !.yielded = ys, !.branch = r.branch, !.out = r.out,
                      !.err = r.err,
                      !.drops = IF r.out = "yield" THEN 0
                                ELSE IF r.branch \in {"iter_desync", "lookahead"}
                                THEN @ + 1 ELSE @,
                      !.gap = IF r.out = "yield" THEN Append(@, obs.drops) ELSE @,
                      !.seen = IF r.frame # NoFrame THEN <<r.frame>> ELSE @,
                      !.iters = IF gen.ptr < gen.data_len THEN @ + 1 ELSE @,
                      !.first = IF obs.trav = 1
                                THEN [frames |-> ys, full |-> pc = "done"] ELSE @]
  /\ UNCHANGED file

Next ==
  \/ \E index \in 0..(LogCount(file) + 1) : SetLogIndex(index)
  \/ Frames
  \/ NextFrame
  \/ Dispatch

Init == InitOf(StitchFiles, MaxSelects)

Spec == Init /\ [][Next]_vars

InitDesync == InitOf(DesyncFiles, MaxSelects)

SpecDesync == InitDesync /\ [][Next]_vars

InitEvents == InitOf(EventFiles, MaxSelects)

SpecEvents == InitEvents /\ [][Next]_vars

InitInflight == InitOf(InflightFiles, MaxSelects)

SpecInflight == InitInflight /\ [][Next]_vars

InitCorrupt == InitOf(CorruptFiles, MaxSelects)

SpecCorrupt == InitCorrupt /\ [][Next]_vars

InitGroup == InitOf(GroupFiles, MaxSelects)

SpecGroup == InitGroup /\ [][Next]_vars

InitResume == InitOf(ResumeFiles, MaxSelects)

SpecResume == InitResume /\ [][Next]_vars

InitGps == InitOf(GpsFiles, MaxSelects)

InitShaped == InitOf(ShapedFiles, MaxSelects)

SpecShaped == InitShaped /\ [][Next]_vars

SpecGps == InitGps /\ [][Next]_vars

\* A call of a cursor primitive of parser.reader by the caller, r its result.
Call(op, arg, r) ==
  /\ reader' = r.rd
  /\ obs' = [obs EXCEPT !.call = [op |-> op, arg |-> arg, val |-> r.val,
                                  err |-> r.err, ptr |-> reader.frame_data_ptr]]
  /\ UNCHANGED <<file, parser, gen>>

\* reader.seek(pos)
Seek(pos) ==
  Call("seek", pos, [val |-> <<>>, rd |-> ReaderSeek(reader, pos), err |-> ""])

\* reader.tell()
Tell == Call("tell", 0, [val |-> <<ReaderTell(reader)>>, rd |-> reader, err |-> ""])

\* next(reader)
NextByte ==
  \E r \in {ReaderNext(reader)} :
     Call("next", 0, [val |-> IF r.b = None THEN <<>> ELSE <<r.b>>,
                      rd |-> r.rd, err |-> r.err])

\* reader.peek_byte()
PeekByte == Call("peek_byte", 0, ReaderPeekByte(reader))

\* reader.value()
Value == Call("value", 0, ReaderValue(reader))

\* reader.read_bytes(count)
ReadBytes(count) == Call("read_bytes", count, ReaderReadBytes(reader, count))

\* reader.read_batch(size)
ReadBatch(size) == Call("read_batch", size, ReaderReadBatch(reader, size))

\* reader.skip_bytes(count)
SkipBytes(count) == Call("skip_bytes", count, ReaderSkipBytes(reader, count))

\* reader.has_subsequent(data), data the first n bytes of the end-of-log
\* message.
HasSubsequentCall(n) ==
  Call("has_subsequent", n,
       [val |-> <<HasSubsequent(reader, Slice(END_OF_LOG_MESSAGE, 0, n))>>,
        rd |-> reader, err |-> ""])

\* The most bytes a call asks for, and how far past the end of the buffer a
\* call of seek goes.
MaxCount == 2

MaxPastEnd == 2

\* The caller works on parser.reader with the cursor primitives.
NextReader ==
  \/ \E pos \in 0..(reader.frame_data_len + MaxPastEnd) : Seek(pos)
  \/ Tell
  \/ NextByte
  \/ PeekByte
  \/ Value
  \/ \E count \in 0..MaxCount : ReadBytes(count)
  \/ \E size \in 0..MaxCount : ReadBatch(size)
  \/ \E count \in 0..MaxCount : SkipBytes(count)
  \/ \E n \in 0..MaxCount : HasSubsequentCall(n)

\* Files whose first session holds a few bytes.
ReaderFiles ==
  { << Session(HeaderBlock({}, "one"), b1), Session(HeaderBlock({}, "two"), <<>>) >> :
      b1 \in {<<>>, <<69>>, <<69, 110>>, <<69, 0, 42>>} }

InitReader == InitOf(ReaderFiles, 0)

SpecReader == InitReader /\ [][NextReader]_vars

InitHeaders == InitOf(HeaderFiles, MaxHeaderSelects)

SpecHeaders == InitHeaders /\ [][Next]_vars

(***************************************************************************)
(* Properties                                                              *)
(***************************************************************************)

\* The header block of the selected session declares fields of the kind.
Declares(kind) ==
  \E i \in 1..Len(file[reader.log_index].hdr) :
     file[reader.log_index].hdr[i].k.kind = kind

\* The generator has just yielded a frame of the session that is selected.
JustYielded == gen.pc = "suspended" /\ ~gen.stale

\* The number of field defs of a kind, 0 when the kind has none.
Width(kind) ==
  IF kind \in DOMAIN reader.field_defs THEN Len(reader.field_defs[kind]) ELSE 0

\* The slow columns and the gps columns of a yielded frame.
SlowColumns(frame) == Slice(frame.data, Width("I"), Width("I") + Width("S"))

GpsColumns(frame) == Slice(frame.data, Width("I") + Width("S"), Len(frame.data))

\* C1: selecting the session that is already selected changes nothing the
\* caller can see: the headers and the field names are those of the
\* selection before, and the first traversal after it yields, position by
\* position, the frames the first traversal before it yielded (all of them,
\* when both ran to their end).
C1_ReselectIsIdempotent ==
  (obs.prev.valid /\ obs.prev.idx = reader.log_index) =>
     /\ parser.headers = obs.prev.headers
     /\ parser.field_names = obs.prev.field_names
     /\ \A k \in 1..Len(obs.first.frames) :
           k <= Len(obs.prev.frames) => obs.first.frames[k] = obs.prev.frames[k]
     /\ (obs.first.full /\ obs.prev.full) =>
           Len(obs.first.frames) = Len(obs.prev.frames)

\* C2: a yielded frame has as many columns as the selected session has Intra
\* fields, plus its Slow fields if its headers declare any, plus its Gps
\* fields less one if its headers declare any.
C2_TupleLength ==
  JustYielded =>
     Len(Last(obs.yielded).data) =
        Width("I") + (IF Declares("S") THEN Width("S") ELSE 0)
                   + (IF Declares("G") THEN Width("G") - 1 ELSE 0)

\* C3: a frame yielded before any Slow (Gps) frame was decoded in this
\* traversal carries the pad of empty strings in its slow (gps) columns.
C3_PadBeforeFirstSnapshot ==
  JustYielded =>
     /\ ("S" \in gen.kinds /\ gen.last_slow = <<>>) =>
           SlowColumns(Last(obs.yielded)) = Repeat(EmptyStr, Width("S"))
     /\ ("G" \in gen.kinds /\ gen.last_gps = <<>>) =>
           GpsColumns(Last(obs.yielded)) = Repeat(EmptyStr, Width("G") - 1)

\* C4: the slow (gps) columns of a yielded frame are the data of the last
\* Slow (Gps) frame decoded before it in this traversal (the gps data without
\* its time), and of no other Slow (Gps) frame.
C4_SnapshotIsLatestPredecessor ==
  JustYielded =>
     /\ "S" \in gen.kinds =>
           SlowColumns(Last(obs.yielded)) =
              IF gen.last_slow = <<>> THEN Repeat(EmptyStr, Width("S"))
              ELSE gen.last_slow[1].data
     /\ "G" \in gen.kinds =>
           GpsColumns(Last(obs.yielded)) =
              IF gen.last_gps = <<>> THEN Repeat(EmptyStr, Width("G") - 1)
              ELSE Tail(gen.last_gps[1].data)

\* C5: only Intra and Inter frames are yielded.  Decoding a Slow (Gps) frame
\* sets the last-slow (last-gps) snapshot to its data and decoding a GpsHome
\* frame appends it to the frame history; none of the three yields, appends
\* an event, or changes anything else of the snapshots and the history.
C5_OnlyMainFramesYielded ==
  [][ /\ \A k \in 1..Len(obs'.yielded) : obs'.yielded[k].type \in {"I", "P"}
      /\ (gen.pc = "running" /\ obs'.branch \in {"slow", "gps", "gps_home"}) =>
            /\ gen'.pc = "running"
            /\ obs'.yielded = obs.yielded
            /\ parser'.events = parser.events
            /\ IF obs'.branch = "slow"
               THEN /\ parser'.last_slow_data # <<>>
                    /\ gen'.last_slow = <<[type |-> "S", data |-> parser'.last_slow_data[1]]>>
               ELSE parser'.last_slow_data = parser.last_slow_data
            /\ IF obs'.branch = "gps"
               THEN /\ parser'.last_gps_data # <<>>
                    /\ gen'.last_gps = <<[type |-> "G", data |-> parser'.last_gps_data[1]]>>
               ELSE parser'.last_gps_data = parser.last_gps_data
            /\ IF obs'.branch = "gps_home"
               THEN /\ Len(parser'.ctx.past_frames) = Len(parser.ctx.past_frames) + 1
                    /\ Last(parser'.ctx.past_frames).type = "H"
               ELSE parser'.ctx.past_frames = parser.ctx.past_frames
    ]_vars

\* A Slow frame has just been decoded, after a main frame was yielded: the
\* generator runs on, and the snapshot holds the data of the Slow frame.
C5_Witness ==
  /\ gen.pc = "running"
  /\ obs.branch = "slow"
  /\ Len(obs.yielded) = 1
  /\ parser.last_slow_data = <<<<4, 5>>>>

\* The time and the loopIteration of a yielded frame.
TimeOf(frame) ==
  GetCurrentValueByName(reader.field_defs[frame.type], frame.data, "time")

IterOf(frame) ==
  GetCurrentValueByName(reader.field_defs[frame.type], frame.data, "loopIteration")

\* C6: of two frames yielded one after the other, the time of the second is
\* not below the time of the first by more than MAX_TIME_JUMP.
C6_TimeRule ==
  ~gen.stale =>
     \A k \in 2..Len(obs.yielded) :
        \/ TimeOf(obs.yielded[k]) >= TimeOf(obs.yielded[k - 1])
        \/ TimeOf(obs.yielded[k - 1]) - TimeOf(obs.yielded[k]) <= MAX_TIME_JUMP

\* The iteration rule on an iteration a and the one b that follows it.
IterRule(a, b) == ~(a >= b /\ a + b > MAX_ITER_JUMP)

\* C7 as stated: any two frames yielded one after the other satisfy the
\* iteration rule, whatever was dropped between them.
C7_IterRuleAcrossDrops ==
  ~gen.stale =>
     \A k \in 2..Len(obs.yielded) :
        IterRule(IterOf(obs.yielded[k - 1]), IterOf(obs.yielded[k]))

\* C7: two frames yielded one after the other satisfy the iteration rule when
\* no main frame was dropped between them at the iteration check or at the
\* look-ahead (such a drop moves the tracked iteration to the dropped frame).
C7_IterRuleWithoutDrops ==
  ~gen.stale =>
     \A k \in 2..Len(obs.yielded) :
        obs.gap[k] = 0 =>
           IterRule(IterOf(obs.yielded[k - 1]), IterOf(obs.yielded[k]))

\* Two frames are yielded with nothing dropped between them, the iteration of
\* the second not above that of the first.
C7_Witness ==
  /\ JustYielded
  /\ Len(obs.yielded) = 2
  /\ obs.gap[2] = 0
  /\ IterOf(obs.yielded[1]) >= IterOf(obs.yielded[2])

\* The generator is about to read a log-end event of the selected session:
\* the tag 'E' and the id 255 are the next two bytes of its buffer.
AtLogEnd ==
  /\ gen.pc = "running"
  /\ ~gen.stale
  /\ gen.ptr + 2 <= gen.data_len
  /\ gen.frame_data[gen.ptr + 1] = 69
  /\ gen.frame_data[gen.ptr + 2] = 255

\* C8: parsing a log-end event ends the stream with the cursor right after
\* the event id, whether the message follows or not: the event is appended,
\* nothing is yielded, and the generator, once ended, yields no frame and
\* appends no event.
C8_LogEndTerminates ==
  [][ /\ AtLogEnd =>
            /\ gen'.pc = "done"
            /\ reader'.frame_data_ptr = gen.ptr + 2
            /\ obs'.yielded = obs.yielded
            /\ Len(parser'.events) = Len(parser.events) + 1
            /\ Last(parser'.events).type = "LOG_END"
      /\ (gen.pc = "done" /\ gen'.pc = "done") =>
            /\ obs'.yielded = obs.yielded
            /\ parser'.events \in {parser.events, <<>>}
    ]_vars

\* The stream has ended at a log-end event that is followed by bytes, none of
\* them read, the first of them not those of the message.
C8_Witness ==
  /\ gen.pc = "done"
  /\ obs.branch = "event"
  /\ Len(parser.events) = 1
  /\ parser.events[1].type = "LOG_END"
  /\ reader.frame_data_ptr = 2
  /\ reader.frame_data_len > 2
  /\ ~HasSubsequent(reader, END_OF_LOG_MESSAGE)

\* C9: a traversal ends at the end of the buffer or at a log-end event it has
\* parsed itself (the generator then rests on that event), and nowhere else.
C9_EndsOnlyAtLogEndOrBufferEnd ==
  (gen.pc = "done" /\ ~gen.stale) =>
     \/ gen.ptr >= gen.data_len
     \/ /\ gen.ptr + 2 <= gen.data_len
        /\ gen.frame_data[gen.ptr + 1] = 69
        /\ gen.frame_data[gen.ptr + 2] = 255

\* C10: no exception leaves the frame stream.
C10_NoExceptionFromStream == gen.pc # "raised"

\* C11: an event appended by the stream carries the time and the
\* loopIteration of the last main frame the generator decoded before it, and
\* carries neither (both are None) when no main frame was decoded before it.
C11_EventCarriesLastObserved ==
  [][ (~gen.stale /\ Len(parser'.events) = Len(parser.events) + 1) =>
         IF obs.seen = <<>>
         THEN /\ Last(parser'.events).time = None
              /\ Last(parser'.events).iteration = None
         ELSE /\ Last(parser'.events).time = TimeOf(obs.seen[1])
              /\ Last(parser'.events).iteration = IterOf(obs.seen[1])
    ]_vars

\* C12: a generator that was suspended when set_log_index reloaded the
\* session is abandoned: when it is resumed, its steps leave the reader (the
\* new buffer and its cursor) and the parser (the events, the terminal flag
\* and the context of the newly selected session) as they are.
C12_StaleGeneratorIsAbandoned ==
  [][ (gen.stale /\ gen.pc = "running") => (reader' = reader /\ parser' = parser)
    ]_vars

\* The headers and the field defs built from a header block alone, by a
\* reader that has selected no session before.
HeadersOf(hdr) == UpdateHeaders(<<>>, hdr, 1).headers

FieldDefsOf(hdr) == BuildFieldDefs(<<>>, HeadersOf(hdr)).fd

\* C13: after a successful selection the headers and the field defs of the
\* reader are those of the header block of the selected session alone:
\* nothing of a session selected before is left in them.
C13_RebuiltFromSelectedSessionAlone ==
  obs.sel_err = "" =>
     /\ reader.headers = HeadersOf(file[reader.log_index].hdr)
     /\ reader.field_defs = FieldDefsOf(file[reader.log_index].hdr)

\* The names of the field defs of a kind, <<>> when the kind has none.
NamesOfKind(kind) ==
  IF kind \in DOMAIN reader.field_defs
  THEN [i \in 1..Len(reader.field_defs[kind]) |-> reader.field_defs[kind][i].name]
  ELSE <<>>

\* For each column of a yielded frame, the name of the field whose value the
\* column holds: the fields of the frame's kind, then the Slow fields, then
\* the Gps fields after the first.
ColumnNames(frame) ==
  NamesOfKind(frame.type)
  \o (IF "S" \in gen.kinds THEN NamesOfKind("S") ELSE <<>>)
  \o (IF "G" \in gen.kinds THEN Tail(NamesOfKind("G")) ELSE <<>>)

\* C14: a yielded frame has one column per exposed field name, and column k
\* holds the value of the field named field_names[k].
C14_TupleAlignedWithFieldNames ==
  JustYielded =>
     /\ Len(Last(obs.yielded).data) = Len(parser.field_names)
     /\ ColumnNames(Last(obs.yielded)) = parser.field_names

\* The field names a header block declares for a kind, <<>> when it declares
\* none.
DeclaredNames(hdr, kind) ==
  IF \E i \in 1..Len(hdr) : hdr[i].k = FieldKey(kind, "name")
  THEN hdr[CHOOSE i \in 1..Len(hdr) : hdr[i].k = FieldKey(kind, "name")].v.items
  ELSE <<>>

\* The names of a sequence that are not among those of listed.
NotListed(names, listed) ==
  SelectSeq(names, LAMBDA n : \A j \in 1..Len(listed) : listed[j] # n)

\* The Intra names, then the Slow names not already listed, then the Gps
\* names not already listed, the Gps "time" left out.
ExposedNames(intra, slow, gps) ==
  intra \o NotListed(slow, intra)
        \o SelectSeq(NotListed(gps, intra \o NotListed(slow, intra)),
                     LAMBDA n : n # "time")

\* C15: after a successful selection field_names is the Intra names of the
\* selected session, then its Slow names not already listed, then its Gps
\* names not already listed and without the Gps "time"; a kind the session
\* declares no fields of contributes nothing.
C15_FieldNamesOrder ==
  obs.sel_err = "" =>
     parser.field_names =
        ExposedNames(DeclaredNames(file[reader.log_index].hdr, "I"),
                     DeclaredNames(file[reader.log_index].hdr, "S"),
                     DeclaredNames(file[reader.log_index].hdr, "G"))

\* C16: seek raises for a position past the end of the buffer and for no
\* position from 0 to the length of the buffer, so the cursor never leaves
\* the buffer: 0 <= cursor <= length.
C16_SeekStaysInBuffer ==
  /\ obs.call.op = "seek" =>
        (obs.call.err # "" <=> obs.call.arg > reader.frame_data_len)
  /\ 0 <= reader.frame_data_ptr
  /\ reader.frame_data_ptr <= reader.frame_data_len

\* The bytes that remained before the last call.
Remaining == reader.frame_data_len - obs.call.ptr

\* C17: no cursor primitive raises.  next, peek_byte and value return None
\* when no byte remains and the byte under the cursor else; read_bytes(n)
\* returns None when fewer than n bytes remain and skip_bytes(n) False; a
\* failed read_bytes / skip_bytes and every peek_byte, value and
\* has_subsequent leave the cursor where it was; a successful read_bytes(n) /
\* skip_bytes(n) moves it by n, and a successful next by 1.
C17_OutOfBufferReadsReturnAbsent ==
  /\ obs.call.err = ""
  /\ obs.call.op \in {"next", "peek_byte", "value"} =>
        obs.call.val = IF Remaining <= 0 THEN <<>>
                       ELSE <<reader.frame_data[obs.call.ptr + 1]>>
  /\ obs.call.op = "next" =>
        reader.frame_data_ptr = obs.call.ptr + (IF Remaining <= 0 THEN 0 ELSE 1)
  /\ obs.call.op \in {"peek_byte", "value", "has_subsequent"} =>
        reader.frame_data_ptr = obs.call.ptr
  /\ obs.call.op = "read_bytes" =>
        IF Remaining < obs.call.arg
        THEN obs.call.val = <<>> /\ reader.frame_data_ptr = obs.call.ptr
        ELSE /\ obs.call.val = <<Slice(reader.frame_data, obs.call.ptr,
                                       obs.call.ptr + obs.call.arg)>>
             /\ reader.frame_data_ptr = obs.call.ptr + obs.call.arg
  /\ obs.call.op = "skip_bytes" =>
        IF Remaining < obs.call.arg
        THEN obs.call.val = <<FALSE>> /\ reader.frame_data_ptr = obs.call.ptr
        ELSE obs.call.val = <<TRUE>>
             /\ reader.frame_data_ptr = obs.call.ptr + obs.call.arg

\* C18: set_log_index raises the invalid-index error when its index is below
\* 1 or above the number of sessions, and does not raise it for an index
\* from 1 to the number of sessions.
C18_InvalidIndexIsRejected ==
  obs.sel > 0 =>
     (obs.sel_err = "RuntimeError: Invalid log_index"
        <=> (obs.sel_idx < 1 \/ obs.sel_idx > LogCount(file)))

\* Session 2 was selected, and then the index 0 was refused.
C18_Witness ==
  /\ obs.sel = 2
  /\ obs.sel_idx = 0
  /\ obs.sel_err = "RuntimeError: Invalid log_index"
  /\ reader.log_index = 2

\* The header block names, for a field of some kind, an encoding id that is
\* not in the decoder registry or a predictor id that is not in the
\* predictor registry.
NamesUnknownId(hdr) ==
  \E i \in 1..Len(hdr) :
     /\ hdr[i].colon
     /\ hdr[i].k.kind # ""
     /\ \/ /\ hdr[i].k.prop = "encoding"
           /\ \E j \in 1..Len(hdr[i].v.items) : hdr[i].v.items[j] \notin DecoderIds
        \/ /\ hdr[i].k.prop = "predictor"
           /\ \E j \in 1..Len(hdr[i].v.items) : hdr[i].v.items[j] \notin PredictorIds

\* C19: selecting a session whose headers name an unknown encoding id or an
\* unknown predictor id raises the error of the missing decoder or predictor;
\* and after a selection that raised nothing, every field def that has an
\* encoding id has the decoder of that id and every field def that has a
\* predictor id has the predictor of that id.
C19_UnknownIdsAreFatal ==
  /\ (obs.sel > 0 /\ obs.sel_idx \in 1..LogCount(file)
        /\ NamesUnknownId(file[obs.sel_idx].hdr)) =>
          obs.sel_err \in {"RuntimeError: No decoder found",
                           "RuntimeError: No predictor found"}
  /\ obs.sel_err = "" =>
        \A k \in DOMAIN reader.field_defs :
           \A i \in 1..Len(reader.field_defs[k]) :
              /\ reader.field_defs[k][i].encoding # "" =>
                    /\ reader.field_defs[k][i].encoding \in DecoderIds
                    /\ reader.field_defs[k][i].decoderfun =
                          reader.field_defs[k][i].encoding
              /\ reader.field_defs[k][i].predictor # "" =>
                    /\ reader.field_defs[k][i].predictor \in PredictorIds
                    /\ reader.field_defs[k][i].predictorfun =
                          reader.field_defs[k][i].predictor

\* The selection of a session whose second Slow field names the encoding id
\* 9 has raised, the id written to the field and no decoder bound to it.
C19_Witness ==
  /\ obs.sel_err = "RuntimeError: No decoder found"
  /\ "S" \in DOMAIN reader.field_defs
  /\ reader.field_defs["S"][2].encoding = "9"
  /\ reader.field_defs["S"][2].decoderfun = ""

\* C20: a header line without a colon is skipped.  Selecting a session whose
\* header block holds such a line raises nothing for it, the header lines
\* after it are parsed into the mapping, and the mapping has no entry for it.
C20_LineWithoutColonIsSkipped ==
  (obs.sel > 0 /\ obs.sel_idx \in 1..LogCount(file)) =>
     \A i \in 1..Len(file[obs.sel_idx].hdr) :
        ~file[obs.sel_idx].hdr[i].colon =>
           /\ obs.sel_err # "ValueError"
           /\ ~HasKey(reader.headers, file[obs.sel_idx].hdr[i].k)
           /\ \A j \in (i + 1)..Len(file[obs.sel_idx].hdr) :
                 file[obs.sel_idx].hdr[j].colon =>
                    HasKey(reader.headers, file[obs.sel_idx].hdr[j].k)

\* The generator is about to read an inflight-adjustment event of the
\* selected session: the tag 'E', the id 13, then the byte that holds the
\* function index and the variant.
AtInflightAdjustment ==
  /\ gen.pc = "running"
  /\ ~gen.stale
  /\ gen.ptr + 3 <= gen.data_len
  /\ gen.frame_data[gen.ptr + 1] = 69
  /\ gen.frame_data[gen.ptr + 2] = 13

\* The float32 that 32 bits stand for, exact for the whole numbers from 1
\* to 2^24.
Float32(bits) ==
  ((bits % 8388608) + 8388608) \div Pow2(150 - ((bits \div 8388608) % 256))

\* The raw value of the event the generator is about to read, <<>> when the
\* buffer ends inside it: a signed varint for a byte below 128, a float else.
RawValue ==
  LET rd == [reader EXCEPT !.frame_data_ptr = gen.ptr + 3]
  IN  IF gen.frame_data[gen.ptr + 3] < 128
      THEN (IF ReadSignedVB(rd, 0, 0).err = ""
            THEN <<ReadSignedVB(rd, 0, 0).val>> ELSE <<>>)
      ELSE (IF ReadU32(rd).err = "" THEN <<Float32(ReadU32(rd).val)>> ELSE <<>>)

\* The scale of a table entry for a variant, in units of 1/10000: the float
\* scale for the float variant and the integer scale for the integer variant
\* if the entry has it, and 1 otherwise.
ScaleOfVariant(descr, tag) ==
  IF tag >= 128 THEN (IF descr.scalef # 0 THEN descr.scalef ELSE 10000)
  ELSE (IF descr.scale # 0 THEN descr.scale ELSE 10000)

\* C21: an inflight-adjustment event whose function index is in the table
\* is appended with the payload name = the name of the table entry, func =
\* tag & 0x7F and value = raw * scale, where the scale is the float scale of
\* the entry for the float variant (tag >= 128) and its integer scale for
\* the integer variant (tag < 128), and 1 when the entry has no such scale.
C21_InflightAdjustmentScale ==
  [][ (AtInflightAdjustment /\ RawValue # <<>>
         /\ gen.frame_data[gen.ptr + 3] % 128 < Len(INFLIGHT_ADJUSTMENT_FUNCTIONS)) =>
        LET tag == gen.frame_data[gen.ptr + 3]
            descr == INFLIGHT_ADJUSTMENT_FUNCTIONS[(tag % 128) + 1]
        IN  /\ gen'.pc # "raised"
            /\ Len(parser'.events) = Len(parser.events) + 1
            /\ Last(parser'.events).type = "INFLIGHT_ADJUSTMENT"
            /\ Last(parser'.events).data =
                  <<tag % 128, RawValue[1] * ScaleOfVariant(descr, tag), descr.name>>
    ]_vars

\* The generator of the selected session decodes an Intra / Inter frame in
\* this step and takes it through the checks: the frame is obs'.seen[1].
DecodesMainFrame ==
  /\ gen.pc = "running"
  /\ ~gen.stale
  /\ obs'.branch \in {"main", "time_desync", "iter_desync", "lookahead"}
  /\ obs'.out # "raise"

\* C22: a decoded Intra / Inter frame whose time is below the tracked time by
\* more than MAX_TIME_JUMP is dropped as desync: it is not yielded, the
\* invalid count grows by one, the tracked time becomes the time of the
\* dropped frame, and the stream goes on.
C22_TimeDesyncDrops ==
  [][ (DecodesMainFrame /\ gen.last_time # None
         /\ TimeOf(obs'.seen[1]) < gen.last_time
         /\ gen.last_time - TimeOf(obs'.seen[1]) > MAX_TIME_JUMP) =>
        /\ obs'.branch = "time_desync"
        /\ obs'.yielded = obs.yielded
        /\ gen'.pc = "running"
        /\ parser'.ctx.invalid_frame_count = parser.ctx.invalid_frame_count + 1
        /\ gen'.last_time = TimeOf(obs'.seen[1])
    ]_vars

\* C23: a decoded Intra / Inter frame is dropped for iteration desync exactly
\* when the tracked iteration is not below its loopIteration and the sum of
\* the two is above MAX_ITER_JUMP = 5000; the tracker starts at 0.  The
\* dropped frame is not yielded, the invalid count grows by one and the
\* tracked iteration becomes the loopIteration of the dropped frame.
C23_IterDesyncDrops ==
  [][ /\ (gen.pc = "new" /\ gen'.pc = "running") => gen'.last_iter = 0
      /\ DecodesMainFrame =>
            /\ obs'.branch = "iter_desync" <=>
                  (/\ gen.last_iter >= IterOf(obs'.seen[1])
                   /\ IterOf(obs'.seen[1]) + gen.last_iter > 5000)
            /\ obs'.branch = "iter_desync" =>
                  /\ obs'.yielded = obs.yielded
                  /\ gen'.pc = "running"
                  /\ parser'.ctx.invalid_frame_count =
                        parser.ctx.invalid_frame_count + 1
                  /\ gen'.last_iter = IterOf(obs'.seen[1])
    ]_vars

\* A frame of iteration 3000 was yielded and a second frame of iteration
\* 3000 has just been dropped at the iteration check.
C23_Witness ==
  /\ gen.pc = "running"
  /\ obs.branch = "iter_desync"
  /\ Len(obs.yielded) = 1
  /\ IterOf(obs.yielded[1]) = 3000
  /\ obs.seen # <<>>
  /\ IterOf(obs.seen[1]) = 3000
  /\ gen.last_iter = 3000
  /\ parser.ctx.invalid_frame_count = 1

\* The kind of the frame at the generator's dispatch position, "" when the
\* byte there is no frame tag.
KindAtDispatch == FrameTypeOfByte(gen.frame_data[gen.ptr + 1])

\* The generator is about to decode a frame of a kind that has field defs.
AtFrame ==
  /\ gen.pc = "running"
  /\ gen.ptr < gen.data_len
  /\ KindAtDispatch \in gen.kinds \ {"E"}

\* What the field pipeline makes of the frame at the dispatch position.
Pipeline ==
  ParseFrameOptimized(reader.field_defs[KindAtDispatch],
                      [reader EXCEPT !.frame_data_ptr = gen.ptr + 1],
                      [parser.ctx EXCEPT !.frame_type = KindAtDispatch])

\* C24: when a decoder of the field pipeline returns None, the frame is
\* aborted.  The invalid count grows by one; nothing is yielded; the
\* last-slow and last-gps snapshots and the frame history stay as they were;
\* the reader is not rewound; and the next dispatch starts at the position
\* the failed decoder left the cursor at.
C24_AbsentFieldAbortsFrame ==
  [][ (AtFrame /\ gen.ctx = <<>> /\ Pipeline.err = "" /\ ~Pipeline.ok) =>
        /\ gen'.pc = "running"
        /\ parser'.ctx.invalid_frame_count = parser.ctx.invalid_frame_count + 1
        /\ obs'.yielded = obs.yielded
        /\ parser'.last_slow_data = parser.last_slow_data
        /\ parser'.last_gps_data = parser.last_gps_data
        /\ gen'.last_slow = gen.last_slow
        /\ gen'.last_gps = gen.last_gps
        /\ parser'.ctx.past_frames = parser.ctx.past_frames
        /\ reader'.frame_data_ptr = Pipeline.rd.frame_data_ptr
        /\ reader'.frame_data_ptr > gen.ptr
        /\ gen'.ptr = reader'.frame_data_ptr
    ]_vars

\* A Slow frame was decoded, and a second Slow frame, cut off after its first
\* field, has just been aborted: the snapshot is that of the first.
C24_Witness ==
  /\ gen.pc = "running"
  /\ obs.branch = "corrupt"
  /\ parser.ctx.field_index = 1
  /\ parser.ctx.frame_type = "S"
  /\ parser.last_slow_data = <<<<4, 5>>>>
  /\ parser.ctx.invalid_frame_count = 1
  /\ gen.ptr = gen.data_len

\* C25: an Intra / Inter frame that has passed the time check and the
\* iteration check is dropped as corrupt when a byte remains after it and
\* that byte is none of the tags 'I', 'P', 'S', 'G', 'H', 'E': it is not
\* yielded and not added to the history, the invalid count grows by one and
\* the next dispatch starts one past that byte.  Otherwise (the byte is a
\* tag, or the frame ends at the end of the buffer) the frame is yielded.
C25_LookaheadDropsBeforeStrayByte ==
  [][ (DecodesMainFrame /\ obs'.branch \notin {"time_desync", "iter_desync"}) =>
        LET next_ptr == Pipeline.rd.frame_data_ptr
        IN  IF /\ next_ptr < gen.data_len
               /\ gen.frame_data[next_ptr + 1] \notin {73, 80, 83, 71, 72, 69}
            THEN /\ gen'.pc = "running"
                 /\ obs'.yielded = obs.yielded
                 /\ parser'.ctx.past_frames = parser.ctx.past_frames
                 /\ parser'.ctx.invalid_frame_count =
                       parser.ctx.invalid_frame_count + 1
                 /\ gen'.ptr = next_ptr + 1
            ELSE /\ gen'.pc = "suspended"
                 /\ obs'.yielded = Append(obs.yielded, obs'.seen[1])
                 /\ parser'.ctx.past_frames =
                       Append(parser.ctx.past_frames, obs'.seen[1])
                 /\ parser'.ctx.invalid_frame_count = parser.ctx.invalid_frame_count
                 /\ gen'.ptr = next_ptr
    ]_vars

\* An Intra frame followed by the byte 1 has just been dropped, the dispatch
\* position one past that byte.
C25_Witness ==
  /\ gen.pc = "running"
  /\ obs.branch = "lookahead"
  /\ obs.yielded = <<>>
  /\ obs.seen # <<>>
  /\ obs.seen[1].type = "I"
  /\ gen.frame_data[5] = 1
  /\ gen.ptr = 5
  /\ parser.ctx.invalid_frame_count = 1
  /\ parser.ctx.past_frames = <<>>

RECURSIVE FrameOf(_, _, _)
FrameOf(fdefs, rd, result) ==
  IF Len(result) >= Len(fdefs) THEN [ok |-> TRUE, data |-> result]
  ELSE Let(Decode(fdefs[Len(result) + 1], rd),
           LAMBDA d :
             LET room == Len(fdefs) - Len(result)
                 k == IF Len(d.vals) < room THEN Len(d.vals) ELSE room
             IN  IF d.err # "" \/ d.val = None THEN [ok |-> FALSE, data |-> result]
                 ELSE FrameOf(fdefs, d.rd,
                              result \o [j \in 1..k |->
                                           Predict(fdefs[Len(result) + j], d.vals[j])]))

\* The frame to come of the bytes at the dispatch position.
ExpectedFrame ==
  FrameOf(reader.field_defs[KindAtDispatch],
          [reader EXCEPT !.frame_data_ptr = gen.ptr + 1], <<>>)

\* The columns of a main frame without the slow and gps columns stitched to
\* its end.
MainColumns(frame) ==
  SubSeq(frame.data, 1,
         Len(frame.data) - (IF "S" \in gen.kinds THEN Width("S") ELSE 0)
                         - (IF "G" \in gen.kinds THEN Width("G") - 1 ELSE 0))

\* C27: a frame parse in which no decoder returns None ends with field_index
\* at the field count of the kind, and the frame has exactly that many
\* values: the elements of a tuple a decoder returns fill consecutive field
\* slots, each passed through the predictor of its own field, and a tuple
\* that would extend past the last field fills no slot beyond it.
C27_FieldIndexEndsAtFieldCount ==
  [][ (AtFrame /\ gen.ctx = <<>> /\ ExpectedFrame.ok) =>
        /\ gen'.pc # "raised"
        /\ parser'.ctx.field_index = Len(reader.field_defs[KindAtDispatch])
        /\ ExpectedFrame.data =
              CASE KindAtDispatch = "S" -> parser'.last_slow_data[1]
                [] KindAtDispatch = "G" -> parser'.last_gps_data[1]
                [] KindAtDispatch = "H" -> Last(parser'.ctx.past_frames).data
                [] OTHER -> MainColumns(obs'.seen[1])
    ]_vars

\* Item i of the header 'Field <kind> <prop>' of the reader's header
\* mapping, "" when the mapping has no such header or the header no item i.
HeaderItem(kind, prop, i) ==
  LET at == {h \in 1..Len(reader.headers) : reader.headers[h].k = FieldKey(kind, prop)}
  IN  IF at = {} THEN ""
      ELSE LET items == reader.headers[CHOOSE h \in at : TRUE].v.items
           IN  IF i <= Len(items) THEN items[i] ELSE ""

HeaderPlace(kind, prop) ==
  LET at == {h \in 1..Len(reader.headers) : reader.headers[h].k = FieldKey(kind, prop)}
  IN  IF at = {} THEN 0 ELSE CHOOSE h \in at : TRUE

\* What the builder stores for an item of a field of the given name.
Latitude(name, item) == IF name = "GPS_coord[1]" /\ item = "7" THEN "256" ELSE item

C29_InterMirrorsIntra ==
  (obs.sel_err = "" /\ "P" \in DOMAIN reader.field_defs)
  => /\ "I" \in DOMAIN reader.field_defs
     /\ Len(reader.field_defs["I"]) = Len(reader.field_defs["P"])
     /\ \A i \in 1..Len(reader.field_defs["P"]) :
           reader.field_defs["P"][i].name = reader.field_defs["I"][i].name

\* The generator runs one iteration of its loop and goes on after it.
Iterates ==
  /\ gen.pc = "running"
  /\ gen.ptr < gen.data_len
  /\ obs'.out \in {"continue", "yield"}

\* C30: an iteration of the dispatch loop after which the loop goes on moves
\* the dispatch cursor forward by at least one byte and not beyond the
\* length of the buffer the generator reads, and a generator has run no
\* more iterations than that buffer has bytes.
C30_DispatchCursorAdvances ==
  [][ /\ Iterates => (gen.ptr < gen'.ptr /\ gen'.ptr <= gen.data_len)
      /\ obs'.iters <= gen'.data_len ]_vars

\* A call of set_log_index raises for an invalid index or for an encoding
\* id or a predictor id that no registry holds.
SelectFails ==
  /\ obs'.sel = obs.sel + 1
  /\ obs'.sel_err \in {"RuntimeError: Invalid log_index",
                       "RuntimeError: No decoder found",
                       "RuntimeError: No predictor found"}

\* C31: a call of set_log_index that raises for an invalid index or for an
\* unknown encoding or predictor id leaves the selected log index, the
\* headers, the field defs, the field names, the session buffer, the cursor
\* and the collected events as they were before the call.
C31_FailedSelectKeepsSession ==
  [][ SelectFails =>
        /\ reader'.log_index = reader.log_index
        /\ reader'.headers = reader.headers
        /\ reader'.field_defs = reader.field_defs
        /\ reader'.frame_data = reader.frame_data
        /\ reader'.frame_data_len = reader.frame_data_len
        /\ reader'.frame_data_ptr = reader.frame_data_ptr
        /\ parser'.headers = parser.headers
        /\ parser'.field_names = parser.field_names
        /\ parser'.events = parser.events ]_vars

====
